---- MODULE Spec2Model ----
(***************************************************************************)
(* Document boundary detection and enhancement pipeline of the Cloud       *)
(* Functions backend (functions/index.js, kept as src/unnamed/part_004):   *)
(* the three entry points enhanceDocument, correctPerspective and          *)
(* processDocumentByUrl, the two detectors removeDocumentBorders and       *)
(* detectDocumentEdges, the bounds guard and the sharp transform chain.    *)
(*                                                                         *)
(* One invocation is modelled at a time: the handlers share no state, so   *)
(* an invocation starts from the same state whatever ran before it.  The   *)
(* handler is cut at its awaits: one action per awaited step.              *)
(***************************************************************************)
EXTENDS Integers, Sequences, FiniteSets, TLC

\* ---------------------------------------------------------------- bounds
\* Image sides are multiples of DimStep, 1..MaxDimSteps of them.
MaxDimSteps == 3
DimStep == 450
\* ---------------------------------------------------- program constants
MinCropSize == 100
BrightBorder == 220
MaxStrip == 20
TargetSize == 800
WorkSize == 600
MinPad == 5
LowContrast == 10

Dims == {15, 90} \cup {DimStep * k : k \in 1..MaxDimSteps}

\* ------------------------------------------------------------ arithmetic
Min(a, b) == IF a <= b THEN a ELSE b
Max(a, b) == IF a >= b THEN a ELSE b

Round_Truncating(n, d) == n \div d

\* Math.round(n / d) for d > 0: floor(n/d + 1/2).
Round(n, d) == (2 * n + d) \div (2 * d)

\* Math.floor(n / d) for d > 0.
Floor(n, d) == n \div d

\* ------------------------------------------------------------ rectangles
\* null, as returned by a detector that has no proposal.
NoProposal == [none |-> TRUE]

Rect(x, y, w, h) == [x |-> x, y |-> y, width |-> w, height |-> h]

IsRect(r) == r # NoProposal

\* ------------------------------------------------- removeDocumentBorders
\* Math.min(width, height) * 0.05, kept as the numerator of a fraction of 100.
BorderSample100(W, H) == Min(W, H) * 5

\* sampleHeight: Math.min(20, Math.floor(borderSample)).
SampleHeight(W, H) == Min(MaxStrip, Floor(BorderSample100(W, H), 100))

CropAmount_OfStrip(W, H) == Floor(SampleHeight(W, H) * 8, 10)

\* cropAmount: Math.floor(borderSample * 0.8).
CropAmount(W, H) == Floor(BorderSample100(W, H) * 8, 1000)

BrightEnough_OrEqual(sum, count) == sum >= BrightBorder * count

\* avgBorderBrightness > 220, with avgBorderBrightness = borderBrightness / sampleCount.
BrightEnough(sum, count) == sum > BrightBorder * count

\* The top and bottom strips hold W * sampleHeight grey samples each; topB and
\* botB are the mean brightness of each strip.  sharp rejects an extract of
\* height 0, the catch turns that into null.
RemoveDocumentBorders(W, H, topB, botB) ==
  LET n == W * SampleHeight(W, H)
      sum == topB * n + botB * n
      count == 2 * n
      c == CropAmount(W, H)
  IN IF SampleHeight(W, H) <= 0 THEN NoProposal
     ELSE IF BrightEnough(sum, count)
          THEN Rect(c, c, Max(MinCropSize, W - 2 * c), Max(MinCropSize, H - 2 * c))
          ELSE NoProposal

\* --------------------------------------------------- detectDocumentEdges
\* Working size: scale = min(target / width, target / height), each side
\* Math.round(side * scale).
WorkW(W, H, target) == IF W >= H THEN target ELSE Round(W * target, H)
WorkH(W, H, target) == IF W >= H THEN Round(H * target, W) ELSE target

\* The 5 % check of both methods: result.width > width * 0.05, same for height.
PlausibleBox(r, W, H) == 20 * r.width > W /\ 20 * r.height > H

Method1Box_SizeBeforePadding(W, H, minX, maxX, minY, maxY) ==
  LET sw == WorkW(W, H, TargetSize)
      sh == WorkH(W, H, TargetSize)
      padX == Max(MinPad, Round((maxX - minX) * 5, 100))
      padY == Max(MinPad, Round((maxY - minY) * 5, 100))
      x0 == Max(0, minX - padX)
      y0 == Max(0, minY - padY)
  IN Rect(Round(x0 * W, sw), Round(y0 * H, sh),
          Round((maxX - minX) * W, sw), Round((maxY - minY) * H, sh))

\* Method 1 after the scan of the binarised mask found content in columns
\* minX..maxX and rows minY..maxY of the smallWidth x smallHeight mask:
\* padding, clamping to the mask and scaling back to the original.
Method1Box(W, H, minX, maxX, minY, maxY) ==
  LET sw == WorkW(W, H, TargetSize)
      sh == WorkH(W, H, TargetSize)
      padX == Max(MinPad, Round((maxX - minX) * 5, 100))
      padY == Max(MinPad, Round((maxY - minY) * 5, 100))
      x0 == Max(0, minX - padX)
      x1 == Min(sw - 1, maxX + padX)
      y0 == Max(0, minY - padY)
      y1 == Min(sh - 1, maxY + padY)
  IN Rect(Round(x0 * W, sw), Round(y0 * H, sh),
          Round((x1 - x0) * W, sw), Round((y1 - y0) * H, sh))

Method2Box_Unclamped(W, H, topY, bottomY, leftX, rightX) ==
  LET ww == WorkW(W, H, WorkSize)
      wh == WorkH(W, H, WorkSize)
      top == IF topY < 0 THEN 0 ELSE Max(0, topY - Round(wh * 3, 100))
      bottom == IF bottomY < 0 THEN wh - 1 ELSE bottomY + Round(wh * 3, 100)
      left == IF leftX < 0 THEN 0 ELSE Max(0, leftX - Round(ww * 3, 100))
      right == IF rightX < 0 THEN ww - 1 ELSE rightX + Round(ww * 3, 100)
  IN Rect(Round(left * W, ww), Round(top * H, wh),
          Round((right - left) * W, ww), Round((bottom - top) * H, wh))

\* Method 2 after the four scans: topY, bottomY, leftX, rightX are the first
\* line of each scan whose dark count exceeds 20 %, or -1 when the scan ran to
\* the end (the side then keeps its initial value).
Method2Box(W, H, topY, bottomY, leftX, rightX) ==
  LET ww == WorkW(W, H, WorkSize)
      wh == WorkH(W, H, WorkSize)
      top == IF topY < 0 THEN 0 ELSE Max(0, topY - Round(wh * 3, 100))
      bottom == IF bottomY < 0 THEN wh - 1 ELSE Min(wh - 1, bottomY + Round(wh * 3, 100))
      left == IF leftX < 0 THEN 0 ELSE Max(0, leftX - Round(ww * 3, 100))
      right == IF rightX < 0 THEN ww - 1 ELSE Min(ww - 1, rightX + Round(ww * 3, 100))
  IN Rect(Round(left * W, ww), Round(top * H, wh),
          Round((right - left) * W, ww), Round((bottom - top) * H, wh))

\* ----------------------------------------------------------- bounds guard
\* safeX, safeY, safeWidth, safeHeight of correctPerspective.
SafeX(r, W) == Max(0, Min(r.x, W - r.width - 1))
SafeY(r, H) == Max(0, Min(r.y, H - r.height - 1))
SafeWidth_Unclamped(r, W) == r.width

SafeWidth(r, W) == Min(r.width, W - SafeX(r, W))

SafeRect(r, W, H) ==
  Rect(SafeX(r, W), SafeY(r, H), SafeWidth(r, W), Min(r.height, H - SafeY(r, H)))

\* sharp's extract() rejects, when called, a region that is not made of
\* non-negative offsets and positive sizes.
ExtractArgsOk(r) == r.x >= 0 /\ r.y >= 0 /\ r.width > 0 /\ r.height > 0

\* ------------------------------------------------------- transform chain
ResizeDims_Enlarge(d, maxWidth) ==
  [width |-> maxWidth, height |-> Max(1, Round(d.height * maxWidth, d.width))]

\* withoutEnlargement, fit 'inside', width only: an image wider than maxWidth
\* is scaled down to it, any other keeps its size.
ResizeDims(d, maxWidth) ==
  IF d.width > maxWidth
  THEN [width |-> maxWidth, height |-> Max(1, Round(d.height * maxWidth, d.width))]
  ELSE d

\* Size of the image a chain of requested operations produces from one of size d.
RECURSIVE ChainDims(_, _)
ChainDims(chain, d) ==
  IF chain = << >> THEN d
  ELSE LET o == Head(chain)
           nd == IF o.op = "extract" THEN [width |-> o.r.width, height |-> o.r.height]
                 ELSE IF o.op = "resize" THEN ResizeDims(d, o.width)
                 ELSE d
       IN ChainDims(Tail(chain), nd)

\* toBuffer() fails when an extract leaves the image it is applied to.
RECURSIVE ChainRuns(_, _)
ChainRuns(chain, d) ==
  IF chain = << >> THEN TRUE
  ELSE LET o == Head(chain)
       IN IF o.op = "extract"
          THEN (o.r.x + o.r.width <= d.width /\ o.r.y + o.r.height <= d.height)
               /\ ChainRuns(Tail(chain), [width |-> o.r.width, height |-> o.r.height])
          ELSE IF o.op = "resize"
               THEN ChainRuns(Tail(chain), ResizeDims(d, o.width))
               ELSE ChainRuns(Tail(chain), d)

HasOp(chain, name) == \E i \in 1..Len(chain) : chain[i].op = name

\* ------------------------------------------------------------------ inputs
\* A handleUpload that was cancelled may still be running when the next starts.
HandlerSlots == {"earlier", "later"}

\* Two calls of the document functions may be running at the same time.
CallSlots == {"first", "second"}

NullThreshold == -1

ValidImages == {[kind |-> "valid", width |-> w, height |-> h] : w \in Dims, h \in Dims}

BadImage(k) == [kind |-> k, width |-> 0, height |-> 0]

\* What a caller can hand to each entry point.
Requests(e) ==
  IF e = "enhanceDocument"
  THEN ValidImages \cup {BadImage("missing"), BadImage("oversize"), BadImage("corrupt")}
  ELSE IF e = "correctPerspective"
  THEN ValidImages \cup {BadImage("missing"), BadImage("corrupt")}
  ELSE ValidImages \cup {BadImage("badMethod"), BadImage("missing"),
                         BadImage("fetchFailed"), BadImage("corrupt")}

MaxWidths == {0, 400, 1000}

\* The options record as the caller passes it; a field the entry point does not
\* read is still passed.  An absent field behaves as its default, which is one
\* of the values listed.
Options(e) ==
  IF e = "enhanceDocument"
  THEN [autoCrop : {TRUE}, removeBorders : {TRUE}, enhance : BOOLEAN, grayscale : BOOLEAN,
        maxWidth : MaxWidths, threshold : {NullThreshold, 0, 128},
        format : {"jpeg", "png", "webp", "gif"}]
  ELSE IF e = "correctPerspective"
  THEN [autoCrop : BOOLEAN, removeBorders : BOOLEAN, enhance : BOOLEAN, grayscale : BOOLEAN,
        maxWidth : MaxWidths, threshold : {NullThreshold, 128},
        format : {"jpeg"}]
  ELSE [autoCrop : BOOLEAN, removeBorders : {TRUE}, enhance : BOOLEAN, grayscale : BOOLEAN,
        maxWidth : MaxWidths, threshold : {NullThreshold, 128},
        format : {"jpeg", "png", "webp", "gif"}]

\* Mean brightness of a border strip.
StripLevels == {200, 220, 221, 255}

\* Column or row ranges the scan of a mask of side n can find content in.
Spans(n) == {<<0, n - 1>>, <<n \div 4, (3 * n) \div 4>>, <<n \div 2, n \div 2>>,
             <<n \div 3, n \div 3 + n \div 10>>}

\* Lines a banded scan of a side n can stop at from each end (-1: none found).
ScanStops(n) == {<<-1, -1>>, <<0, n - 1>>, <<n \div 4, (3 * n) \div 4>>,
                 <<(2 * n) \div 3, n \div 3>>, <<n \div 2, n \div 2 + n \div 40>>}

\* maxBrightness - minBrightness of the working image.
Contrasts == {0, 9, 10, 255}

\* What the detectors read off the image of a request.  A request that carries
\* the content of its image fixes the readings; for any other image the
\* content can be anything.
HasContent(rq) == "content" \in DOMAIN rq

MaskColumns(rq) ==
  IF HasContent(rq)
  THEN IF rq.content.mask.found THEN {rq.content.mask.sx} ELSE {}
  ELSE Spans(WorkW(rq.width, rq.height, TargetSize))

MaskRows(rq) ==
  IF HasContent(rq)
  THEN IF rq.content.mask.found THEN {rq.content.mask.sy} ELSE {}
  ELSE Spans(WorkH(rq.width, rq.height, TargetSize))

ScanRows(rq) ==
  IF HasContent(rq)
  THEN IF rq.content.scan.found THEN {rq.content.scan.v} ELSE {}
  ELSE ScanStops(WorkH(rq.width, rq.height, WorkSize))

ScanColumns(rq) ==
  IF HasContent(rq)
  THEN IF rq.content.scan.found THEN {rq.content.scan.hz} ELSE {}
  ELSE ScanStops(WorkW(rq.width, rq.height, WorkSize))

\* ------------------------------------------------------------------- state
VARIABLES
  pc,          \* position of the running invocation
  entry,       \* the entry point invoked
  request,     \* the image (or failing request) it was called with
  opts,        \* the options it was called with
  cropArea,    \* the detectors' proposal
  processor,   \* operations requested on the sharp processor, in call order
  stages,      \* pipeline stages passed, in order
  cropApplied,
  cropInfo,
  result,      \* what the caller receives
  observed,    \* an earlier invocation and its outcome, as noted by an observer
  batchPc,     \* position of the running processBatch call
  images,      \* processBatch: the images it was called with
  batchOptions,\* processBatch: { ...options, batchMode: true }
  callable,    \* processBatch: whether the handlers' _method can be called
  index,       \* processBatch: index of the image being processed
  results,     \* processBatch: the per-image entries pushed so far
  batchReturn, \* processBatch: what the caller receives
  probePc,     \* position of a detector called on its own
  probeImage,  \* the image it was called with
  maskRead,    \* what the scan of the binarised mask found
  scanRead,    \* the contrast and the scan stops of the gradient scan
  stripRead,   \* the mean brightness of the top and of the bottom strip
  workData,    \* the grey levels of the working image of the gradient scan
  edges,       \* what the detector returned
  currentUser, \* documentService: auth.currentUser (its uid, or "none")
  documents,   \* the Firestore collection 'documents', oldest first
  listed,      \* what the last documentService query returned, and to whom
  calls,       \* the running getDocument and deleteDocument calls
  firestore,   \* cloud functions: the records of the collection 'documents'
  storage,     \* cloud functions: the files documents/<userId>/<documentId>.jpg
  minted,      \* the document ids storeDocument has generated
  file,        \* compressImage: the object stored under the uploaded name
  finalized,   \* compressImage: finalize events not yet delivered
  compressing, \* compressImage: invocations between download and save
  tally,       \* per upload: what was uploaded, the invocations and saves it caused
  upload,      \* Upload component: files, uploading, processing, progress, error, result
  handlers,    \* Upload component: position of each running handleUpload
  timers,      \* Upload component: the intervals and timeouts that are pending
  cancelled    \* 'Cancel Processing' was pressed and no new scan was started since

batchVars == <<batchPc, images, batchOptions, callable, index, results, batchReturn>>

probeVars == <<probePc, probeImage, maskRead, scanRead, stripRead, workData, edges>>

docVars == <<currentUser, documents, listed>>

svcVars == <<calls, firestore, storage, minted, file, finalized, compressing, tally,
             upload, handlers, timers, cancelled>>

\* What no step of a pipeline invocation touches.
others == <<observed, batchVars, probeVars, docVars, svcVars>>

vars == <<pc, entry, request, opts, cropArea, processor, stages, cropApplied, cropInfo, result,
          observed, batchVars, probeVars, docVars, svcVars>>

NoObservation == [none |-> TRUE]

NoResult == [status |-> "none"]

NoReading == [found |-> FALSE]

\* No detector is being called on its own.
ProbeIdle ==
  /\ probePc = "idle"
  /\ probeImage = BadImage("none")
  /\ maskRead = NoReading
  /\ scanRead = NoReading
  /\ stripRead = NoReading
  /\ workData = NoReading
  /\ edges = NoProposal

\* Nobody is signed in and the collection is empty.
DocsIdle ==
  /\ currentUser = "none"
  /\ documents = << >>
  /\ listed = [by |-> "none"]

\* No document cloud function is running and nothing is stored; nothing was
\* uploaded and no finalize event is pending; the Upload component has the
\* initial values of its useState hooks.
SvcIdle ==
  /\ calls = [c \in CallSlots |-> ([pc |-> "idle"])]
  /\ firestore = {}
  /\ storage = {}
  /\ minted = {}
  /\ file = [exists |-> FALSE]
  /\ finalized = {}
  /\ compressing = {}
  /\ tally = << >>
  /\ upload = [files |-> << >>, uploading |-> FALSE, processing |-> FALSE,
               processingProgress |-> 0, error |-> "", result |-> "null"]
  /\ handlers = [h \in HandlerSlots |-> "idle"]
  /\ timers = {}
  /\ cancelled = FALSE

\* No processBatch call is running.
BatchIdle ==
  /\ batchPc = "idle"
  /\ images = << >>
  /\ batchOptions = [none |-> TRUE]
  /\ callable = TRUE
  /\ index = 0
  /\ results = << >>
  /\ batchReturn = NoResult

Init ==
  /\ pc = "idle"
  /\ entry = "none"
  /\ request = BadImage("none")
  /\ opts = [none |-> TRUE]
  /\ cropArea = NoProposal
  /\ processor = << >>
  /\ stages = << >>
  /\ cropApplied = FALSE
  /\ cropInfo = "No crop applied"
  /\ result = NoResult
  /\ observed = NoObservation
  /\ BatchIdle
  /\ ProbeIdle
  /\ DocsIdle
  /\ SvcIdle

\* ----------------------------------------------------------------- results
\* correctPerspective returns {success: false}, enhanceDocument throws an
\* HttpsError, processDocumentByUrl answers with an HTTP error status.
Failure(e, why) ==
  [status |-> "error",
   how |-> IF e = "correctPerspective" THEN "returned"
           ELSE IF e = "enhanceDocument" THEN "thrown" ELSE "http",
   error |-> why]

Finish(r) ==
  /\ pc' = "done"
  /\ result' = r

\* ------------------------------------------------------------------ actions
\* The call and the checks made before the first await.
Invoke(e, rq, o) ==
  /\ pc = "idle"
  /\   /\ entry' = e
       /\ request' = rq
       /\ opts' = o
       /\ IF rq.kind \in {"missing", "badMethod", "fetchFailed"}
             \/ (rq.kind = "oversize" /\ e = "enhanceDocument")
          THEN Finish(Failure(e, rq.kind))
          ELSE /\ pc' = "decode"
               /\ UNCHANGED result
  /\ UNCHANGED <<cropArea, processor, stages, cropApplied, cropInfo>>
  /\ UNCHANGED others

Call ==
  /\ pc = "idle"
  /\ \E e \in {"enhanceDocument", "correctPerspective", "processDocumentByUrl"} :
       \E rq \in Requests(e) : \E o \in Options(e) : Invoke(e, rq, o)

\* sharp(imageBuffer).metadata() rejects bytes that are not an image.
Decodable_Always(rq) == TRUE

Decodable(rq) == rq.kind # "corrupt"

Decode_BordersFirst ==
  /\ pc = "decode"
  /\ IF ~Decodable(request)
     THEN /\ Finish(Failure(entry, "decode"))
          /\ UNCHANGED stages
     ELSE /\ stages' = Append(stages, "Decoded")
          /\ pc' = IF entry = "enhanceDocument" THEN "enhance"
                   ELSE IF entry = "correctPerspective" /\ opts.removeBorders THEN "border"
                   ELSE IF ~opts.autoCrop THEN "enhance"
                   ELSE "method1"
          /\ UNCHANGED result
  /\ UNCHANGED <<entry, request, opts, cropArea, processor, cropApplied, cropInfo>>
  /\ UNCHANGED others

\* await sharp(imageBuffer).metadata()
Decode ==
  /\ pc = "decode"
  /\ IF ~Decodable(request)
     THEN /\ Finish(Failure(entry, "decode"))
          /\ UNCHANGED stages
     ELSE /\ stages' = Append(stages, "Decoded")
          /\ pc' = IF entry = "enhanceDocument" \/ ~opts.autoCrop THEN "enhance"
                   ELSE IF entry = "correctPerspective" /\ opts.removeBorders THEN "border"
                   ELSE "method1"
          /\ UNCHANGED result
  /\ UNCHANGED <<entry, request, opts, cropArea, processor, cropApplied, cropInfo>>
  /\ UNCHANGED others

\* if (!cropArea): edge detection runs only when border removal proposed nothing.
AfterBorder_Always(r) == "method1"

AfterBorder(r) == IF IsRect(r) THEN "guard" ELSE "method1"

\* cropArea = await removeDocumentBorders(imageBuffer)
BorderCheck ==
  /\ pc = "border"
  /\ \E topB \in IF HasContent(request) THEN {request.content.topB} ELSE StripLevels,
        botB \in IF HasContent(request) THEN {request.content.botB} ELSE StripLevels :
       LET r == RemoveDocumentBorders(request.width, request.height, topB, botB)
       IN /\ cropArea' = r
          /\ cropInfo' = IF IsRect(r) THEN "Border removal crop" ELSE cropInfo
          /\ pc' = AfterBorder(r)
  /\ stages' = Append(stages, "BorderChecked")
  /\ UNCHANGED <<entry, request, opts, processor, cropApplied, result>>
  /\ UNCHANGED others

\* detectDocumentEdges returned r (null when r = NoProposal).
EdgesReturn(r) ==
  /\ cropArea' = r
  /\ cropInfo' = IF IsRect(r) /\ entry = "correctPerspective"
                 THEN "Edge detection crop" ELSE cropInfo
  /\ pc' = "guard"

\* Method 1 of detectDocumentEdges: sharp fails, or the mask holds no content,
\* or the padded box is returned when plausible; anything else goes on to Method 2.
Method1 ==
  /\ pc = "method1"
  /\ \/ /\ (HasContent(request) => ~request.content.mask.found)
        /\ pc' = "method2"
        /\ UNCHANGED <<cropArea, cropInfo>>
     \/ \E sx \in MaskColumns(request), sy \in MaskRows(request) :
          LET r == Method1Box(request.width, request.height, sx[1], sx[2], sy[1], sy[2])
          IN IF PlausibleBox(r, request.width, request.height)
             THEN EdgesReturn(r)
             ELSE /\ pc' = "method2"
                  /\ UNCHANGED <<cropArea, cropInfo>>
  /\ stages' = Append(stages, "BoundingBoxChecked")
  /\ UNCHANGED <<entry, request, opts, processor, cropApplied, result>>
  /\ UNCHANGED others

TooFlat_Never(contrast) == FALSE

\* if (contrast < 10) return null
TooFlat(contrast) == contrast < LowContrast

\* Method 2 of detectDocumentEdges: sharp fails (outer catch), or the contrast
\* is below 10, or the scanned box is returned when plausible; null otherwise.
Method2 ==
  /\ pc = "method2"
  /\ \/ /\ (HasContent(request) => ~request.content.scan.found)
        /\ EdgesReturn(NoProposal)
     \/ \E contrast \in (IF ~HasContent(request) THEN Contrasts
                         ELSE IF request.content.scan.found
                         THEN {request.content.scan.contrast} ELSE {}),
           v \in ScanRows(request), hz \in ScanColumns(request) :
          LET r == Method2Box(request.width, request.height, v[1], v[2], hz[1], hz[2])
          IN IF ~TooFlat(contrast) /\ PlausibleBox(r, request.width, request.height)
             THEN EdgesReturn(r)
             ELSE EdgesReturn(NoProposal)
  /\ stages' = Append(stages, "GradientChecked")
  /\ UNCHANGED <<entry, request, opts, processor, cropApplied, result>>
  /\ UNCHANGED others

\* The region of the fallback extract.
FullImage_OffByOne(W, H) == Rect(0, 0, W + 1, H + 1)

FullImage(W, H) == Rect(0, 0, W, H)

LargeEnough_WidthOnly(w, h) == w > MinCropSize

\* width > 100 && height > 100, of the proposal and again of the clamped region.
LargeEnough(w, h) == w > MinCropSize /\ h > MinCropSize

ApplyCrop_FallbackUnflagged ==
  /\ pc = "guard"
  /\ entry = "correctPerspective"
  /\ LET W == request.width
         H == request.height
         safe == SafeRect(cropArea, W, H)
         full == FullImage(W, H)
     IN IF IsRect(cropArea) /\ LargeEnough(cropArea.width, cropArea.height)
        THEN IF LargeEnough(safe.width, safe.height)
             THEN IF ExtractArgsOk(safe)
                  THEN /\ processor' = Append(processor, [op |-> "extract", r |-> safe])
                       /\ stages' = stages \o <<"BoundsClamped", "Cropped">>
                       /\ cropApplied' = TRUE
                       /\ cropInfo' = "Crop applied"
                  ELSE /\ stages' = Append(stages, "BoundsClamped")
                       /\ UNCHANGED <<processor, cropApplied, cropInfo>>
             ELSE /\ stages' = Append(stages, "BoundsClamped")
                  /\ UNCHANGED <<processor, cropApplied, cropInfo>>
        ELSE IF ExtractArgsOk(full)
             THEN /\ processor' = Append(processor, [op |-> "extract", r |-> full])
                  /\ stages' = Append(stages, "FallbackCropped")
                  /\ UNCHANGED cropApplied
                  /\ cropInfo' = "Fallback: cropped entire image"
             ELSE UNCHANGED <<processor, stages, cropApplied, cropInfo>>
  /\ pc' = "enhance"
  /\ UNCHANGED <<entry, request, opts, cropArea, result>>
  /\ UNCHANGED others

\* correctPerspective: the bounds guard and the crop, with the full-image fallback.
ApplyCrop ==
  /\ pc = "guard"
  /\ entry = "correctPerspective"
  /\ LET W == request.width
         H == request.height
         safe == SafeRect(cropArea, W, H)
         full == FullImage(W, H)
     IN IF IsRect(cropArea) /\ LargeEnough(cropArea.width, cropArea.height)
        THEN IF LargeEnough(safe.width, safe.height)
             THEN IF ExtractArgsOk(safe)
                  THEN /\ processor' = Append(processor, [op |-> "extract", r |-> safe])
                       /\ stages' = stages \o <<"BoundsClamped", "Cropped">>
                       /\ cropApplied' = TRUE
                       /\ cropInfo' = "Crop applied"
                  ELSE /\ stages' = Append(stages, "BoundsClamped")
                       /\ UNCHANGED <<processor, cropApplied, cropInfo>>
             ELSE /\ stages' = Append(stages, "BoundsClamped")
                  /\ UNCHANGED <<processor, cropApplied, cropInfo>>
        ELSE IF ExtractArgsOk(full)
             THEN /\ processor' = Append(processor, [op |-> "extract", r |-> full])
                  /\ stages' = Append(stages, "FallbackCropped")
                  /\ cropApplied' = TRUE
                  /\ cropInfo' = "Fallback: cropped entire image"
             ELSE UNCHANGED <<processor, stages, cropApplied, cropInfo>>
  /\ pc' = "enhance"
  /\ UNCHANGED <<entry, request, opts, cropArea, result>>
  /\ UNCHANGED others

\* processDocumentByUrl: the detector's rectangle is extracted as returned.
ApplyCropByUrl ==
  /\ pc = "guard"
  /\ entry = "processDocumentByUrl"
  /\ IF IsRect(cropArea) /\ LargeEnough(cropArea.width, cropArea.height)
        /\ ExtractArgsOk(cropArea)
     THEN /\ processor' = Append(processor, [op |-> "extract", r |-> cropArea])
          /\ stages' = Append(stages, "Cropped")
     ELSE UNCHANGED <<processor, stages>>
  /\ pc' = "enhance"
  /\ UNCHANGED <<entry, request, opts, cropArea, cropApplied, cropInfo, result>>
  /\ UNCHANGED others

\* The operations each entry point requests between the crop and the encoder.
ResizeOps(o, W) ==
  IF o.maxWidth > 0 /\ W > o.maxWidth THEN <<[op |-> "resize", width |-> o.maxWidth]>> ELSE << >>

GrayscaleOps(o) == IF o.grayscale THEN <<[op |-> "grayscale"]>> ELSE << >>

EnhanceOps(o) == IF o.enhance THEN <<[op |-> "normalise"], [op |-> "sharpen"]>> ELSE << >>

ThresholdOps(o) ==
  IF o.threshold # NullThreshold /\ o.threshold > 0
  THEN <<[op |-> "threshold", level |-> o.threshold]>> ELSE << >>

EnhanceDocumentOps(o, W) == ResizeOps(o, W) \o GrayscaleOps(o) \o EnhanceOps(o) \o ThresholdOps(o)

CorrectPerspectiveOps(o, W) == EnhanceOps(o) \o GrayscaleOps(o) \o ResizeOps(o, W)

ProcessDocumentByUrlOps(o, W) == ResizeOps(o, W) \o GrayscaleOps(o) \o EnhanceOps(o) \o ThresholdOps(o)

Enhance ==
  /\ pc = "enhance"
  /\ processor' = processor \o
       (IF entry = "enhanceDocument" THEN EnhanceDocumentOps(opts, request.width)
        ELSE IF entry = "correctPerspective" THEN CorrectPerspectiveOps(opts, request.width)
        ELSE ProcessDocumentByUrlOps(opts, request.width))
  /\ stages' = Append(stages, "Enhanced")
  /\ pc' = "encode"
  /\ UNCHANGED <<entry, request, opts, cropArea, cropApplied, cropInfo, result>>
  /\ UNCHANGED others

\* The encoder each entry point picks for the requested format.
OutputFormat(e, format) ==
  IF e = "enhanceDocument"
  THEN IF format = "webp" THEN "webp" ELSE IF format = "png" THEN "png" ELSE "jpeg"
  ELSE IF e = "processDocumentByUrl"
  THEN IF format = "png" THEN "png" ELSE "jpeg"
  ELSE "jpeg"

\* await processor.<format>(...).toBuffer(), then the result record.
Encode ==
  /\ pc = "encode"
  /\ LET chain == Append(processor, [op |-> "encode", format |-> OutputFormat(entry, opts.format)])
         orig == [width |-> request.width, height |-> request.height]
         out == ChainDims(chain, orig)
         image == [width |-> out.width, height |-> out.height,
                   mimeType |-> OutputFormat(entry, opts.format),
                   bilevel |-> HasOp(chain, "threshold")]
     IN /\ processor' = chain
        /\ IF ChainRuns(chain, orig)
           THEN /\ stages' = Append(stages, "Encoded")
                /\ Finish(IF entry = "correctPerspective"
                          THEN [status |-> "ok", image |-> image, original |-> orig,
                                cropApplied |-> cropApplied, cropInfo |-> cropInfo,
                                compressionRatio |-> IF cropApplied THEN "computed" ELSE "0%"]
                          ELSE [status |-> "ok", image |-> image, original |-> orig])
           ELSE /\ Finish(Failure(entry, "encode"))
                /\ UNCHANGED stages
  /\ UNCHANGED <<entry, request, opts, cropArea, cropApplied, cropInfo>>
  /\ UNCHANGED others

EndInvocation_KeepsCropState ==
  /\ pc = "done"
  /\ pc' = "idle"
  /\ entry' = "none"
  /\ request' = BadImage("none")
  /\ opts' = [none |-> TRUE]
  /\ cropArea' = NoProposal
  /\ processor' = << >>
  /\ stages' = << >>
  /\ UNCHANGED <<cropApplied, cropInfo>>
  /\ result' = NoResult

\* The handler's variables are local to the call: nothing of an invocation is
\* kept for the next one.
EndInvocation ==
  /\ pc = "done"
  /\ pc' = "idle"
  /\ entry' = "none"
  /\ request' = BadImage("none")
  /\ opts' = [none |-> TRUE]
  /\ cropArea' = NoProposal
  /\ processor' = << >>
  /\ stages' = << >>
  /\ cropApplied' = FALSE
  /\ cropInfo' = "No crop applied"
  /\ result' = NoResult

Return ==
  /\ EndInvocation
  /\ UNCHANGED others

Next ==
  \/ Call
  \/ Decode
  \/ BorderCheck
  \/ Method1
  \/ Method2
  \/ ApplyCrop
  \/ ApplyCropByUrl
  \/ Enhance
  \/ Encode
  \/ Return

Spec == Init /\ [][Next]_vars

\* --------------------------------------------- the same call, made twice
\* Images whose content is known, so that a second call with the same image
\* reads the same pixels.
KnownContents ==
  [topB : {200, 255}, botB : {255},
   mask : {[found |-> FALSE],
           [found |-> TRUE, sx |-> <<TargetSize \div 4, (3 * TargetSize) \div 4>>,
                            sy |-> <<TargetSize \div 4, (3 * TargetSize) \div 4>>]},
   scan : {[found |-> FALSE],
           [found |-> TRUE, contrast |-> 9, v |-> <<0, WorkSize - 1>>, hz |-> <<0, WorkSize - 1>>],
           [found |-> TRUE, contrast |-> 255, v |-> <<WorkSize \div 4, (3 * WorkSize) \div 4>>,
                            hz |-> <<WorkSize \div 4, (3 * WorkSize) \div 4>>]}]

KnownRequests ==
  {[kind |-> "valid", width |-> w, height |-> DimStep, content |-> c] :
     w \in {DimStep, 2 * DimStep}, c \in KnownContents}
  \cup {BadImage("corrupt")}

TwiceOptions(e) ==
  IF e = "correctPerspective"
  THEN [autoCrop : BOOLEAN, removeBorders : BOOLEAN, enhance : {TRUE}, grayscale : {FALSE},
        maxWidth : {400}, threshold : {NullThreshold}, format : {"jpeg"}]
  ELSE [autoCrop : {TRUE}, removeBorders : {TRUE}, enhance : {TRUE}, grayscale : {TRUE},
        maxWidth : {0, 400}, threshold : {128}, format : {"png"}]

CallKnown ==
  /\ pc = "idle"
  /\ \E e \in {"correctPerspective", "enhanceDocument"} :
       \E rq \in KnownRequests : \E o \in TwiceOptions(e) : Invoke(e, rq, o)

\* Everything an invocation decided and returned.
Outcome ==
  [result |-> result, cropArea |-> cropArea, stages |-> stages, processor |-> processor,
   cropApplied |-> cropApplied, cropInfo |-> cropInfo]

\* An observer notes one invocation with its outcome as it returns.
Observe ==
  /\ observed = NoObservation
  /\ EndInvocation
  /\ observed' = [entry |-> entry, request |-> request, opts |-> opts, outcome |-> Outcome]
  /\ UNCHANGED <<batchVars, probeVars, docVars, svcVars>>

TwiceNext ==
  \/ CallKnown
  \/ Decode
  \/ BorderCheck
  \/ Method1
  \/ Method2
  \/ ApplyCrop
  \/ Enhance
  \/ Encode
  \/ Return
  \/ Observe

SpecTwice == Init /\ [][TwiceNext]_vars

\* ------------------------------------------------------------ processBatch
MaxBatch == 3

MaxBatchImages == 10

BatchImageChoices ==
  {[kind |-> "valid", width |-> DimStep, height |-> DimStep,
    content |-> [topB |-> 200, botB |-> 200,
                 mask |-> [found |-> TRUE, sx |-> <<TargetSize \div 4, (3 * TargetSize) \div 4>>,
                                           sy |-> <<TargetSize \div 4, (3 * TargetSize) \div 4>>],
                 scan |-> [found |-> FALSE]]],
   [kind |-> "valid", width |-> 2 * DimStep, height |-> DimStep,
    content |-> [topB |-> 200, botB |-> 200,
                 mask |-> [found |-> FALSE],
                 scan |-> [found |-> TRUE, contrast |-> 255,
                           v |-> <<WorkSize \div 4, (3 * WorkSize) \div 4>>,
                           hz |-> <<WorkSize \div 4, (3 * WorkSize) \div 4>>]]],
   BadImage("corrupt"), BadImage("missing")}

BatchOptionChoices ==
  [correctPerspective : BOOLEAN, autoCrop : BOOLEAN, removeBorders : {TRUE}, enhance : {TRUE},
   grayscale : {FALSE}, maxWidth : {400}, threshold : {NullThreshold}, format : {"jpeg"},
   batchMode : {TRUE}]

\* if (batchOptions.correctPerspective || batchOptions.autoCrop)
BatchHandler(o) ==
  IF o.correctPerspective \/ o.autoCrop THEN "correctPerspective" ELSE "enhanceDocument"

\* The checks before the loop.
BatchStart(imgs, o, c) ==
  /\ batchPc = "idle"
  /\ pc = "idle"
  /\ IF Len(imgs) = 0 \/ Len(imgs) > MaxBatchImages
     THEN /\ batchPc' = "done"
          /\ batchReturn' = [status |-> "error", how |-> "thrown", error |-> "invalid-argument"]
          /\ UNCHANGED <<images, batchOptions, callable, index, results>>
     ELSE /\ batchPc' = "loop"
          /\ images' = imgs
          /\ batchOptions' = o
          /\ callable' = c
          /\ index' = 0
          /\ results' = << >>
          /\ UNCHANGED batchReturn
  /\ UNCHANGED <<pc, entry, request, opts, cropArea, processor, stages, cropApplied, cropInfo,
                 result, observed, probeVars, docVars, svcVars>>

BatchCall ==
  /\ batchPc = "idle"
  /\ \E imgs \in UNION {[1..n -> BatchImageChoices] : n \in 0..MaxBatch}
                 \cup {[k \in 1..(MaxBatchImages + 1) |-> BadImage("corrupt")]} :
       \E o \in BatchOptionChoices : \E c \in BOOLEAN :
       BatchStart(imgs, o, c)

\* catch (error) { results.push({ success: false, index, error: error.message }) }
Caught(i, why) == [success |-> FALSE, index |-> i, error |-> why]

Pushed_SuccessLast(i, r) == [success |-> TRUE, index |-> i, returned |-> r]

\* results.push({ success: true, index, ...result }): the properties of the
\* result are spread last, so its own `success` is the one that is kept.
Pushed(i, r) == [success |-> r.status = "ok", index |-> i, returned |-> r]

NextIndex_StopOnFailure(i, e, n) == IF e.success THEN i + 1 ELSE n

\* for (const [index, image] of images.entries())
NextIndex(i, e, n) == i + 1

\* One image enters the loop body: the handler is called with it, or the call
\* itself throws because the handler's _method is not a function.
BatchItem ==
  /\ batchPc = "loop"
  /\ pc = "idle"
  /\ index < Len(images)
  /\ IF callable
     THEN Invoke(BatchHandler(batchOptions), images[index + 1], batchOptions)
     ELSE LET e == Caught(index, "notCallable")
          IN /\ results' = Append(results, e)
             /\ index' = NextIndex(index, e, Len(images))
             /\ UNCHANGED <<pc, entry, request, opts, cropArea, processor, stages, cropApplied,
                            cropInfo, result, observed, probeVars, docVars, svcVars>>
             /\ UNCHANGED <<batchPc, images, batchOptions, callable, batchReturn>>

\* The awaited handler has finished: its result, or what it threw, is pushed.
BatchCollect ==
  /\ batchPc = "loop"
  /\ pc = "done"
  /\ LET e == IF result.status = "error" /\ result.how = "thrown"
              THEN Caught(index, result.error)
              ELSE Pushed(index, result)
     IN /\ results' = Append(results, e)
        /\ index' = NextIndex(index, e, Len(images))
  /\ EndInvocation
  /\ UNCHANGED <<observed, probeVars, docVars, svcVars, batchPc, images, batchOptions, callable, batchReturn>>

CountResults(rs, flag) == Cardinality({k \in 1..Len(rs) : rs[k].success = flag})

BatchReturn ==
  /\ batchPc = "loop"
  /\ pc = "idle"
  /\ index = Len(images)
  /\ batchPc' = "done"
  /\ batchReturn' = [status |-> "ok", success |-> TRUE, results |-> results,
                     processed |-> CountResults(results, TRUE),
                     failed |-> CountResults(results, FALSE)]
  /\ UNCHANGED <<images, batchOptions, callable, index, results>>
  /\ UNCHANGED <<pc, entry, request, opts, cropArea, processor, stages, cropApplied, cropInfo,
                 result, observed, probeVars, docVars, svcVars>>

\* Nothing of a batch call is kept for the next one.
BatchEnd ==
  /\ batchPc = "done"
  /\ batchPc' = "idle"
  /\ images' = << >>
  /\ batchOptions' = [none |-> TRUE]
  /\ callable' = TRUE
  /\ index' = 0
  /\ results' = << >>
  /\ batchReturn' = NoResult
  /\ UNCHANGED <<pc, entry, request, opts, cropArea, processor, stages, cropApplied, cropInfo,
                 result, observed, probeVars, docVars, svcVars>>

BatchNext ==
  \/ BatchCall
  \/ BatchItem
  \/ Decode
  \/ BorderCheck
  \/ Method1
  \/ Method2
  \/ ApplyCrop
  \/ Enhance
  \/ Encode
  \/ BatchCollect
  \/ BatchReturn
  \/ BatchEnd

SpecBatch == Init /\ [][BatchNext]_vars

\* -------------------------------------------- detectDocumentEdges alone
\* Column or row ranges of a solid dark rectangle in a mask of side n, next to
\* the ranges the pipeline's images show.
EdgeSpans(n) ==
  Spans(n) \cup {<<1, n - 2>>, <<1, 1>>, <<n - 2, n - 2>>, <<6, n - 7>>, <<n \div 2, n - 2>>,
                 <<n \div 2, n \div 2 + n \div 20>>, <<n \div 10, n - 1 - n \div 10>>,
                 <<n \div 2, Min(n - 1, n \div 2 + TargetSize \div 20 - 2 * MinPad)>>}

EdgesInit ==
  /\ pc = "idle"
  /\ entry = "none"
  /\ request = BadImage("none")
  /\ opts = [none |-> TRUE]
  /\ cropArea = NoProposal
  /\ processor = << >>
  /\ stages = << >>
  /\ cropApplied = FALSE
  /\ cropInfo = "No crop applied"
  /\ result = NoResult
  /\ observed = NoObservation
  /\ BatchIdle
  /\ DocsIdle
  /\ SvcIdle
  /\ probePc \in {"border", "method1"}
  /\ probeImage \in ValidImages
  /\ maskRead = NoReading
  /\ scanRead = NoReading
  /\ stripRead = NoReading
  /\ workData = NoReading
  /\ edges = NoProposal

\* Method 1 on the image alone.  The scan keeps the least and the greatest
\* column and row holding a pixel below 128: minX..maxX and minY..maxY.
EdgesMethod1 ==
  /\ probePc = "method1"
  /\ LET W == probeImage.width
         H == probeImage.height
     IN \/ /\ maskRead' = NoReading
           /\ probePc' = "method2"
           /\ UNCHANGED edges
        \/ \E sx \in EdgeSpans(WorkW(W, H, TargetSize)), sy \in EdgeSpans(WorkH(W, H, TargetSize)) :
             LET r == Method1Box(W, H, sx[1], sx[2], sy[1], sy[2])
             IN /\ maskRead' = [found |-> TRUE, minX |-> sx[1], maxX |-> sx[2],
                                minY |-> sy[1], maxY |-> sy[2]]
                /\ IF PlausibleBox(r, W, H)
                   THEN /\ edges' = r
                        /\ probePc' = "returned1"
                   ELSE /\ probePc' = "method2"
                        /\ UNCHANGED edges
  /\ UNCHANGED <<probeImage, scanRead, stripRead, workData>>
  /\ UNCHANGED <<pc, entry, request, opts, cropArea, processor, stages, cropApplied, cropInfo,
                 result, observed, batchVars, docVars, svcVars>>

\* Method 2 on the image alone.
EdgesMethod2 ==
  /\ probePc = "method2"
  /\ LET W == probeImage.width
         H == probeImage.height
     IN \/ /\ scanRead' = NoReading
           /\ edges' = NoProposal
        \/ \E contrast \in Contrasts, v \in ScanStops(WorkH(W, H, WorkSize)),
              hz \in ScanStops(WorkW(W, H, WorkSize)) :
             LET r == Method2Box(W, H, v[1], v[2], hz[1], hz[2])
             IN /\ scanRead' = [found |-> TRUE, contrast |-> contrast, v |-> v, hz |-> hz]
                /\ edges' = IF ~TooFlat(contrast) /\ PlausibleBox(r, W, H) THEN r ELSE NoProposal
  /\ probePc' = "returned2"
  /\ UNCHANGED <<probeImage, maskRead, stripRead, workData>>
  /\ UNCHANGED <<pc, entry, request, opts, cropArea, processor, stages, cropApplied, cropInfo,
                 result, observed, batchVars, docVars, svcVars>>

\* removeDocumentBorders on the image alone: sharp fails on a strip (always so
\* for a strip of height 0) and the catch returns null, or the strips are read.
BordersAlone ==
  /\ probePc = "border"
  /\ LET W == probeImage.width
         H == probeImage.height
     IN \/ /\ stripRead' = NoReading
           /\ edges' = NoProposal
        \/ /\ SampleHeight(W, H) > 0
           /\ \E topB \in StripLevels, botB \in StripLevels :
                /\ stripRead' = [found |-> TRUE, top |-> topB, bottom |-> botB]
                /\ edges' = RemoveDocumentBorders(W, H, topB, botB)
  /\ probePc' = "returnedB"
  /\ UNCHANGED <<probeImage, maskRead, scanRead, workData>>
  /\ UNCHANGED <<pc, entry, request, opts, cropArea, processor, stages, cropApplied, cropInfo,
                 result, observed, batchVars, docVars, svcVars>>

EdgesNext ==
  \/ BordersAlone
  \/ EdgesMethod1
  \/ EdgesMethod2

SpecEdges == EdgesInit /\ [][EdgesNext]_vars

\* --------------------------------------------------------- documentService
MaxDocs == 3

Users == {"u1", "u2"}

PipelineIdle ==
  /\ pc = "idle"
  /\ entry = "none"
  /\ request = BadImage("none")
  /\ opts = [none |-> TRUE]
  /\ cropArea = NoProposal
  /\ processor = << >>
  /\ stages = << >>
  /\ cropApplied = FALSE
  /\ cropInfo = "No crop applied"
  /\ result = NoResult

DocsUnchanged ==
  UNCHANGED <<pc, entry, request, opts, cropArea, processor, stages, cropApplied, cropInfo,
              result, observed, batchVars, probeVars, svcVars>>

\* Firebase auth: a user signs in, or the signed-in user signs out.
SignIn(u) ==
  /\ currentUser = "none"
  /\ currentUser' = u
  /\ UNCHANGED <<documents, listed>>
  /\ DocsUnchanged

SignOut ==
  /\ currentUser # "none"
  /\ currentUser' = "none"
  /\ UNCHANGED <<documents, listed>>
  /\ DocsUnchanged

\* createDocument: addDoc with userId: user.uid; throws when nobody is signed in.
CreateDocument(name) ==
  /\ currentUser # "none"
  /\ Len(documents) < MaxDocs
  /\ documents' = Append(documents, [id |-> Len(documents) + 1, userId |-> currentUser,
                                     filename |-> name])
  /\ UNCHANGED <<currentUser, listed>>
  /\ DocsUnchanged

RECURSIVE Newest(_)
\* orderBy('createdAt', 'desc')
Newest(docs) == IF docs = << >> THEN << >> ELSE Append(Newest(Tail(docs)), Head(docs))

\* query(collection(db, 'documents'), orderBy('createdAt', 'desc')): no where clause.
QueryDocuments(user, docs) == Newest(docs)

\* getUserDocuments: the query's documents, or [] when getDocs fails.
GetUserDocuments ==
  /\ \E found \in {QueryDocuments(currentUser, documents), << >>} :
       listed' = [by |-> "getUserDocuments", user |-> currentUser, docs |-> found]
  /\ UNCHANGED <<currentUser, documents>>
  /\ DocsUnchanged

\* searchDocuments: getUserDocuments, filtered by the term unless it is blank.
SearchDocuments(term) ==
  /\ \E found \in {QueryDocuments(currentUser, documents), << >>} :
       listed' = [by |-> "searchDocuments", user |-> currentUser,
                  docs |-> SelectSeq(found, LAMBDA d : (term = "" \/ (term = "sca" /\ d.filename = "scan")))]
  /\ UNCHANGED <<currentUser, documents>>
  /\ DocsUnchanged

\* getDocumentStats: counts over getUserDocuments.
GetDocumentStats ==
  /\ \E found \in {QueryDocuments(currentUser, documents), << >>} :
       listed' = [by |-> "getDocumentStats", user |-> currentUser, total |-> Len(found)]
  /\ UNCHANGED <<currentUser, documents>>
  /\ DocsUnchanged

DocsNext ==
  \/ \E u \in Users : SignIn(u)
  \/ SignOut
  \/ \E name \in ({"scan", "note"}) : CreateDocument(name)
  \/ GetUserDocuments
  \/ \E term \in ({"", "sca"}) : SearchDocuments(term)
  \/ GetDocumentStats

SpecDocs == Init /\ [][DocsNext]_vars

\* ------------------------------------------------ the gradient scan alone
\* scanStep = Math.max(1, Math.floor(workWidth / 40))
ScanStep(ww) == Max(1, Floor(ww, 40))

\* The lines and samples a loop `for (i = 0; i < n; i += step)` visits.
Grid(n, step) == {i \in 0..(n - 1) : i % step = 0}

\* The lines a loop `for (i = n - 1; i >= 0; i -= step)` visits.
GridBack(n, step) == {i \in 0..(n - 1) : (n - 1 - i) % step = 0}

GridCounts(n, step) ==
  LET taken == Cardinality(Grid(n, step))
  IN {1, taken \div 5, taken \div 5 + 1, taken}

\* Working images: a rectangle of grey level fg on a white background, placed
\* on the scan grid so that a line holds a chosen number of sampled pixels of it.
WorkImages(ww, wh) ==
  LET step == ScanStep(ww)
  IN {[width |-> ww, height |-> wh, fg |-> fg, bg |-> 255,
       x0 |-> x0, x1 |-> Min(ww - 1, x0 + step * (cx - 1)),
       y0 |-> y0, y1 |-> Min(wh - 1, y0 + step * (cy - 1))] :
        fg \in {0, 100, 170, 250}, x0 \in {0, 2 * step}, cx \in GridCounts(ww, step) \ {0},
        y0 \in {0, step + 1, 3 * step}, cy \in GridCounts(wh, step) \ {0}}

\* data[y * workWidth + x]
Data(d, x, y) ==
  IF d.x0 <= x /\ x <= d.x1 /\ d.y0 <= y /\ y <= d.y1 THEN d.fg ELSE d.bg

\* brightness < threshold, threshold = Math.min(avgBrightness * 0.7, 180).
BelowThreshold(d, level) ==
  /\ level < 180
  /\ LET inside == (d.x1 - d.x0 + 1) * (d.y1 - d.y0 + 1)
         sumBrightness == inside * d.fg + (d.width * d.height - inside) * d.bg
     IN 10 * level * (d.width * d.height) < 7 * sumBrightness

DarkInRow(d, y) ==
  Cardinality({x \in Grid(d.width, ScanStep(d.width)) : BelowThreshold(d, Data(d, x, y))})

DarkInColumn(d, x) ==
  Cardinality({y \in Grid(d.height, ScanStep(d.width)) : BelowThreshold(d, Data(d, x, y))})

\* darkCount > (workWidth / scanStep) * 0.2
RowIsEdge(d, y) == 5 * ScanStep(d.width) * DarkInRow(d, y) > d.width

\* darkCount > (workHeight / scanStep) * 0.2
ColumnIsEdge(d, x) == 5 * ScanStep(d.width) * DarkInColumn(d, x) > d.height

\* The line a scan breaks at: the first, or the last, of the lines it visits
\* that is an edge; -1 when the loop runs to its end.
FirstOf(lines) == IF lines = {} THEN -1 ELSE CHOOSE i \in lines : \A j \in lines : i <= j

LastOf(lines) == IF lines = {} THEN -1 ELSE CHOOSE i \in lines : \A j \in lines : i >= j

\* maxBrightness - minBrightness
ContrastOf(d) == Max(d.fg, d.bg) - Min(d.fg, d.bg)

ScanInit ==
  /\ PipelineIdle
  /\ observed = NoObservation
  /\ BatchIdle
  /\ DocsIdle
  /\ SvcIdle
  /\ probePc = "method2"
  /\ \E shape \in {<<600, 600>>, <<600, 440>>, <<600, 200>>, <<134, 600>>, <<267, 600>>,
                    <<1200, 880>>} :
       /\ probeImage = [kind |-> "valid", width |-> shape[1], height |-> shape[2]]
       /\ workData \in WorkImages(WorkW(shape[1], shape[2], WorkSize),
                                  WorkH(shape[1], shape[2], WorkSize))
  /\ maskRead = NoReading
  /\ scanRead = NoReading
  /\ stripRead = NoReading
  /\ edges = NoProposal

\* Method 2 on the pixels of the working image: the statistics, the contrast
\* test, the four scans, the padding and the validation.
GradientScan ==
  /\ probePc = "method2"
  /\ workData # NoReading
  /\ LET W == probeImage.width
         H == probeImage.height
         contrast == ContrastOf(workData)
     IN IF TooFlat(contrast)
        THEN /\ scanRead' = [found |-> TRUE, contrast |-> contrast,
                             v |-> <<-1, -1>>, hz |-> <<-1, -1>>]
             /\ edges' = NoProposal
        ELSE LET step == ScanStep(workData.width)
                 rows == {y \in Grid(workData.height, step) : RowIsEdge(workData, y)}
                 rowsBack == {y \in GridBack(workData.height, step) : RowIsEdge(workData, y)}
                 cols == {x \in Grid(workData.width, step) : ColumnIsEdge(workData, x)}
                 colsBack == {x \in GridBack(workData.width, step) : ColumnIsEdge(workData, x)}
                 v == <<FirstOf(rows), LastOf(rowsBack)>>
                 hz == <<FirstOf(cols), LastOf(colsBack)>>
                 r == Method2Box(W, H, v[1], v[2], hz[1], hz[2])
             IN /\ scanRead' = [found |-> TRUE, contrast |-> contrast, v |-> v, hz |-> hz]
                /\ edges' = IF PlausibleBox(r, W, H) THEN r ELSE NoProposal
  /\ probePc' = "returned2"
  /\ UNCHANGED <<probeImage, maskRead, stripRead, workData>>
  /\ UNCHANGED <<pc, entry, request, opts, cropArea, processor, stages, cropApplied, cropInfo,
                 result, observed, batchVars, docVars, svcVars>>

SpecScan == ScanInit /\ [][GradientScan]_vars

\* ------------------------------- getDocument, deleteDocument, storeDocument
\* The uuids that storeDocument may generate.
DocumentIds == {"d1", "d2"}

NoDoc == [exists |-> FALSE]

\* docRef.get(): the record under documentId, when there is one.
Snapshot(id) ==
  IF \E d \in firestore : d.id = id
  THEN CHOOSE d \in firestore : d.id = id
  ELSE NoDoc

HttpsError(code, message) == [status |-> "error", code |-> code, message |-> message]

Owns_Anyone(document, userId) == TRUE

\* Verify ownership: document.userId !== userId throws permission-denied.
Owns(document, userId) == document.userId = userId

CloudUnchanged ==
  UNCHANGED <<pc, entry, request, opts, cropArea, processor, stages, cropApplied, cropInfo,
              result, observed, batchVars, probeVars, docVars,
              file, finalized, compressing, tally, upload, handlers, timers, cancelled>>

\* storeDocument: the record is stored under a fresh uuid with the caller's
\* uid; an unauthenticated call is rejected first.
StoreDocument(uid, docId) ==
  /\ uid # "none"
  /\ docId \notin minted
  /\ minted' = minted \cup {docId}
  /\ firestore' = firestore \cup {[exists |-> TRUE, id |-> docId, userId |-> uid]}
  /\ UNCHANGED <<calls, storage>>
  /\ CloudUnchanged

\* A file documents/<uid>/<id>.jpg is written to the bucket.
StoreFile(uid, id) ==
  /\ <<uid, id>> \notin storage
  /\ storage' = storage \cup {<<uid, id>>}
  /\ UNCHANGED <<calls, firestore, minted>>
  /\ CloudUnchanged

\* getDocument or deleteDocument is called: the check of context.auth.
FnCall(c, fn, uid, documentId) ==
  /\ calls[c].pc = "idle"
  /\ calls' = [calls EXCEPT ![c] =
                 IF uid = "none"
                 THEN [pc |-> "done", fn |-> fn, uid |-> uid, documentId |-> documentId,
                       snap |-> NoDoc, reads |-> 0,
                       outcome |-> HttpsError("unauthenticated", "Authentication required")]
                 ELSE [pc |-> "get", fn |-> fn, uid |-> uid, documentId |-> documentId,
                       snap |-> NoDoc, reads |-> 0, outcome |-> NoResult]]
  /\ UNCHANGED <<firestore, storage, minted>>
  /\ CloudUnchanged

\* await docRef.get(), then the checks on the snapshot; what they throw is
\* caught and thrown again as 'internal' with the same message.
FnGet(c) ==
  /\ calls[c].pc = "get"
  /\ LET call == calls[c]
         snap == Snapshot(call.documentId)
         read == [call EXCEPT !.snap = snap, !.reads = 1]
     IN calls' = [calls EXCEPT ![c] =
          IF ~snap.exists
          THEN [read EXCEPT !.pc = "done",
                            !.outcome = HttpsError("internal", "Document not found")]
          ELSE IF ~Owns(snap, call.uid)
          THEN [read EXCEPT !.pc = "done",
                            !.outcome = HttpsError("internal", "Access denied")]
          ELSE IF call.fn = "getDocument"
          THEN [read EXCEPT !.pc = "done",
                            !.outcome = [status |-> "ok", success |-> TRUE, document |-> snap]]
          ELSE [read EXCEPT !.pc = "storage"]]
  /\ UNCHANGED <<firestore, storage, minted>>
  /\ CloudUnchanged

\* deleteDocument: the file documents/<userId>/<documentId>.jpg is deleted when
\* it exists; a storage error is caught and logged.
FnDeleteFile(c) ==
  /\ calls[c].pc = "storage"
  /\ \/ storage' = storage \ {<<calls[c].uid, calls[c].documentId>>}
     \/ UNCHANGED storage
  /\ calls' = [calls EXCEPT ![c].pc = "firestore"]
  /\ UNCHANGED <<firestore, minted>>
  /\ CloudUnchanged

\* deleteDocument: await docRef.delete(), which deletes or throws.
FnDeleteRecord(c) ==
  /\ calls[c].pc = "firestore"
  /\ \/ /\ firestore' = {d \in firestore : d.id # calls[c].documentId}
        /\ calls' = [calls EXCEPT ![c].pc = "done",
                                  ![c].outcome = [status |-> "ok", success |-> TRUE]]
     \/ /\ UNCHANGED firestore
        /\ calls' = [calls EXCEPT ![c].pc = "done",
                                  ![c].outcome = HttpsError("internal", "unavailable")]
  /\ UNCHANGED <<storage, minted>>
  /\ CloudUnchanged

\* The caller has its answer.
FnReturn(c) ==
  /\ calls[c].pc = "done"
  /\ calls' = [calls EXCEPT ![c] = ([pc |-> "idle"])]
  /\ UNCHANGED <<firestore, storage, minted>>
  /\ CloudUnchanged

CloudNext ==
  \/ \E uid \in (Users \cup {"none"}), docId \in DocumentIds : StoreDocument(uid, docId)
  \/ \E uid \in Users, id \in DocumentIds : StoreFile(uid, id)
  \/ \E c \in CallSlots, fn \in {"getDocument", "deleteDocument"}, uid \in (Users \cup {"none"}),
        id \in DocumentIds : FnCall(c, fn, uid, id)
  \/ \E c \in CallSlots : FnGet(c)
  \/ \E c \in CallSlots : FnDeleteFile(c)
  \/ \E c \in CallSlots : FnDeleteRecord(c)
  \/ \E c \in CallSlots : FnReturn(c)

SpecCloud == Init /\ [][CloudNext]_vars

\* ------------------------------------------------ compressImage trigger
MaxUploads == 2

IsImage(contentType) == contentType \in {"image/png", "image/jpeg"}

SavedMetadata_Spread(metadata) == metadata

\* metadata: { ...object.metadata, compressed: 'true', ... }
SavedMetadata(metadata) == "true"

Finalize(gen, contentType, compressed, origin) ==
  [gen |-> gen, contentType |-> contentType, compressed |-> compressed, origin |-> origin]

RECURSIVE SumSaves(_)
SumSaves(t) == IF t = << >> THEN 0 ELSE Head(t).saves + SumSaves(Tail(t))

\* The objects finalized so far: one for each upload and one for each save.
Generation == Len(tally) + SumSaves(tally)

TriggerUnchanged ==
  UNCHANGED <<pc, entry, request, opts, cropArea, processor, stages, cropApplied, cropInfo,
              result, observed, batchVars, probeVars, docVars,
              calls, firestore, storage, minted, upload, handlers, timers, cancelled>>

\* An object is uploaded under the name: storage finalizes it.
UploadObject(contentType, compressed, content) ==
  /\ Len(tally) < MaxUploads
  /\ Generation < 3 * MaxUploads
  /\ LET u == Len(tally) + 1
     IN /\ file' = [exists |-> TRUE, contentType |-> contentType, compressed |-> compressed,
                    content |-> content, origin |-> u]
        /\ finalized' = finalized \cup {Finalize(Generation + 1, contentType, compressed, u)}
        /\ tally' = Append(tally, [invocations |-> 0, saves |-> 0,
                                    contentType |-> contentType, content |-> content])
  /\ UNCHANGED compressing
  /\ TriggerUnchanged

\* compressImage is invoked with a finalize event: the two early returns.
TriggerStart(object) ==
  /\ object \in finalized
  /\ finalized' = finalized \ {object}
  /\ tally' = [tally EXCEPT ![object.origin].invocations = @ + 1]
  /\ IF ~IsImage(object.contentType) \/ object.compressed = "true"
     THEN UNCHANGED compressing
     ELSE compressing' = compressing \cup {[object |-> object, buffer |-> "none"]}
  /\ UNCHANGED file
  /\ TriggerUnchanged

\* file.download() and sharp(buffer)...toBuffer(): what is stored under the
\* name now is read; whatever either throws is caught and logged.
TriggerCompress(run) ==
  /\ run \in compressing
  /\ run.buffer = "none"
  /\ \/ /\ file.exists
        /\ file.content = "readable"
        /\ compressing' = (compressing \ {run}) \cup {[run EXCEPT !.buffer = "compressed"]}
     \/ compressing' = compressing \ {run}
  /\ UNCHANGED <<file, finalized, tally>>
  /\ TriggerUnchanged

\* file.save(compressedBuffer, { metadata }): the object is written again and
\* storage finalizes it; a save that throws is caught and logged.
TriggerSave(run) ==
  /\ run \in compressing
  /\ run.buffer = "compressed"
  /\ compressing' = compressing \ {run}
  /\ \/ /\ Generation < 3 * MaxUploads
        /\ file' = [exists |-> TRUE, contentType |-> "image/jpeg",
                    compressed |-> SavedMetadata(run.object.compressed),
                    content |-> "readable", origin |-> run.object.origin]
        /\ finalized' = finalized \cup {Finalize(Generation + 1, "image/jpeg",
                                                 SavedMetadata(run.object.compressed),
                                                 run.object.origin)}
        /\ tally' = [tally EXCEPT ![run.object.origin].saves = @ + 1]
     \/ UNCHANGED <<file, finalized, tally>>
  /\ TriggerUnchanged

TriggerNext ==
  \/ \E t \in {"image/png", "application/pdf", "none"}, c \in {"absent", "true", "false"},
        b \in {"readable", "corrupt"} : UploadObject(t, c, b)
  \/ \E object \in finalized : TriggerStart(object)
  \/ \E run \in compressing : TriggerCompress(run)
  \/ \E run \in compressing : TriggerSave(run)

SpecTrigger == Init /\ [][TriggerNext]_vars

\* ------------------------------------------------------ Upload component
\* disabled={processingProgress > 80}
CancelLimit == 80

\* The progress simulation: setProcessingProgress(prev => ...).
NextProgress(prev) == IF prev < 85 THEN prev + 15 ELSE IF prev < 90 THEN prev + 5 ELSE 90

UploadUnchanged ==
  UNCHANGED <<pc, entry, request, opts, cropArea, processor, stages, cropApplied, cropInfo,
              result, observed, batchVars, probeVars, docVars,
              calls, firestore, storage, minted, file, finalized, compressing, tally>>

\* cleanupProgress: every interval and timeout is cleared, the progress reset.
CleanedUp(u) == [u EXCEPT !.processingProgress = 0]

\* onDrop: the dropzone is shown when nothing is running and no result is up;
\* the effect on [files] cleans up when the files change.
OnDrop ==
  /\ ~upload.uploading /\ ~upload.processing /\ upload.result = "null"
  /\ upload' = [CleanedUp(upload) EXCEPT !.files = <<"file">>, !.result = "null", !.error = ""]
  /\ timers' = {}
  /\ cancelled' = FALSE
  /\ UNCHANGED handlers
  /\ UploadUnchanged

\* handleUpload up to its first await, started with 'Scan Document'.
HandleUpload(h) ==
  /\ upload.files # << >>
  /\ ~upload.uploading /\ ~upload.processing /\ upload.result = "null"
  /\ handlers[h] = "idle"
  /\ upload' = [upload EXCEPT !.uploading = TRUE, !.processing = FALSE, !.error = "",
                              !.result = "null", !.processingProgress = 0]
  /\ handlers' = [handlers EXCEPT ![h] = "uploadDocument"]
  /\ cancelled' = FALSE
  /\ UNCHANGED timers
  /\ UploadUnchanged

\* catch (err): cleanupProgress, setError, setUploading(false), setProcessing(false).
Catch(h) ==
  /\ upload' = [CleanedUp(upload) EXCEPT !.error = "failed", !.uploading = FALSE,
                                         !.processing = FALSE]
  /\ timers' = {}
  /\ handlers' = [handlers EXCEPT ![h] = "idle"]

\* await uploadDocument(...) has settled: processing starts, with its
\* progress simulation, or the error is caught.
UploadSettled(h) ==
  /\ handlers[h] = "uploadDocument"
  /\ \/ /\ upload' = [upload EXCEPT !.uploading = FALSE, !.processing = TRUE]
        /\ timers' = timers \cup {<<h, "progressInterval">>}
        /\ handlers' = [handlers EXCEPT ![h] = "process"]
     \/ Catch(h)
  /\ UNCHANGED cancelled
  /\ UploadUnchanged

\* The interval of a progress simulation fires.
Tick(h) ==
  /\ <<h, "progressInterval">> \in timers
  /\ upload.processingProgress # NextProgress(upload.processingProgress)
  /\ upload' = [upload EXCEPT !.processingProgress = NextProgress(@)]
  /\ UNCHANGED <<handlers, timers, cancelled>>
  /\ UploadUnchanged

\* The awaits of step 2 have settled (getDocumentById, the processing call,
\* updateDocumentWithProcessedUrl): the interval is cleared, the progress set
\* to 100 and the handler waits 300 ms; or the error is caught.
ProcessSettled(h) ==
  /\ handlers[h] = "process"
  /\ \/ /\ upload' = [upload EXCEPT !.processingProgress = 100]
        /\ timers' = (timers \ {<<h, "progressInterval">>}) \cup {<<h, "pause">>}
        /\ handlers' = [handlers EXCEPT ![h] = "pause"]
     \/ Catch(h)
  /\ UNCHANGED cancelled
  /\ UploadUnchanged

\* The 300 ms are over: setResult, setProcessing(false), and the timeout that
\* will empty the files.
PauseOver(h) ==
  /\ handlers[h] = "pause"
  /\ <<h, "pause">> \in timers
  /\ upload' = [upload EXCEPT !.result = "scanned", !.processing = FALSE]
  /\ timers' = (timers \ {<<h, "pause">>}) \cup {<<h, "clearFiles">>}
  /\ handlers' = [handlers EXCEPT ![h] = "idle"]
  /\ UNCHANGED cancelled
  /\ UploadUnchanged

\* setTimeout(() => { ...; setFiles([]) }, 1000), and the effect's cleanup.
ClearFiles(h) ==
  /\ <<h, "clearFiles">> \in timers
  /\ upload' = [CleanedUp(upload) EXCEPT !.files = << >>]
  /\ timers' = {}
  /\ UNCHANGED <<handlers, cancelled>>
  /\ UploadUnchanged

\* 'Cancel Processing': setUploading(false), setProcessing(false), handleCancel().
CancelProcessing ==
  /\ upload.uploading \/ upload.processing
  /\ ~(upload.processingProgress > CancelLimit)
  /\ upload' = [CleanedUp(upload) EXCEPT !.files = << >>, !.result = "null", !.error = "",
                                         !.uploading = FALSE, !.processing = FALSE]
  /\ timers' = {}
  /\ cancelled' = TRUE
  /\ UNCHANGED handlers
  /\ UploadUnchanged

\* 'Start Over' of the error alert: handleCancel.
StartOver ==
  /\ upload.error # ""
  /\ upload' = [CleanedUp(upload) EXCEPT !.files = << >>, !.result = "null", !.error = ""]
  /\ timers' = {}
  /\ UNCHANGED <<handlers, cancelled>>
  /\ UploadUnchanged

\* The button of the result card: setResult(null), setFiles([]).
ScanAnother ==
  /\ upload.result # "null"
  /\ upload' = [CleanedUp(upload) EXCEPT !.result = "null", !.files = << >>]
  /\ timers' = {}
  /\ UNCHANGED <<handlers, cancelled>>
  /\ UploadUnchanged

UploadNext ==
  \/ OnDrop
  \/ \E h \in HandlerSlots : HandleUpload(h)
  \/ \E h \in HandlerSlots : UploadSettled(h)
  \/ \E h \in HandlerSlots : Tick(h)
  \/ \E h \in HandlerSlots : ProcessSettled(h)
  \/ \E h \in HandlerSlots : PauseOver(h)
  \/ \E h \in HandlerSlots : ClearFiles(h)
  \/ CancelProcessing
  \/ StartOver
  \/ ScanAnother

SpecUpload == Init /\ [][UploadNext]_vars

\* ------------------------------------------------- the bounds guard alone
\* Proposals of any position and size, also ones no detector returns: left of
\* or above the image, wider or taller than it, reaching past its far edges.
ProposalOffsets == {-40, 0, 30} \cup {DimStep * k - 50 : k \in 1..MaxDimSteps}

ProposalSizes == {MinCropSize, MinCropSize + 1}
                 \cup {DimStep * k + j : k \in 1..MaxDimSteps, j \in {-1, 0, 1}}
                 \cup {DimStep - 30}

Proposals == {Rect(x, y, w, h) : x \in ProposalOffsets, y \in ProposalOffsets,
                                 w \in ProposalSizes, h \in ProposalSizes}

\* correctPerspective at the point where the detectors have returned.
GuardInit ==
  /\ pc = "guard"
  /\ entry = "correctPerspective"
  /\ request \in ValidImages
  /\ opts = [autoCrop |-> TRUE, removeBorders |-> FALSE, enhance |-> TRUE, grayscale |-> FALSE,
             maxWidth |-> 0, threshold |-> NullThreshold, format |-> "jpeg"]
  /\ cropArea \in Proposals
  /\ processor = << >>
  /\ stages = <<"Decoded", "BoundingBoxChecked">>
  /\ cropApplied = FALSE
  /\ cropInfo = "Edge detection crop"
  /\ result = NoResult
  /\ observed = NoObservation
  /\ BatchIdle
  /\ ProbeIdle
  /\ DocsIdle
  /\ SvcIdle

SpecGuard == GuardInit /\ [][ApplyCrop]_vars

\* ------------------------------------------------------------------ claims
HasStage(name) == \E i \in 1..Len(stages) : stages[i] = name

StageIndex(name) == CHOOSE i \in 1..Len(stages) : stages[i] = name

ExtractOps == {processor[i].r : i \in {j \in 1..Len(processor) : processor[j].op = "extract"}}

\* C1: for every image W x H and every proposal (any integers x, y, width,
\* height with width > 100 and height > 100), the rectangle the bounds guard of
\* correctPerspective hands to the crop satisfies 0 <= x, 0 <= y,
\* x + width <= W and y + height <= H.
C1_GuardWithinBounds ==
  \A r \in ExtractOps :
    /\ 0 <= r.x
    /\ 0 <= r.y
    /\ r.x + r.width <= request.width
    /\ r.y + r.height <= request.height

\* The guard has cropped with a proposal that reached past the right and bottom edges.
C1_Witness ==
  /\ pc = "enhance"
  /\ cropApplied
  /\ cropInfo = "Crop applied"
  /\ cropArea.x + cropArea.width > request.width
  /\ cropArea.y + cropArea.height > request.height
  /\ ExtractOps # {}

\* C2: in correctPerspective and processDocumentByUrl alike, BoundsClamped is
\* reached before Cropped: no detector rectangle is extracted before it was
\* clamped against the original image size.
C2_ClampedBeforeCropped ==
  HasStage("Cropped") =>
    /\ HasStage("BoundsClamped")
    /\ StageIndex("BoundsClamped") < StageIndex("Cropped")

\* Rank of a detector stage in the order BorderClassifier, bounding box, gradient scan.
DetectorRank(name) ==
  IF name = "BorderChecked" THEN 1
  ELSE IF name = "BoundingBoxChecked" THEN 2
  ELSE IF name = "GradientChecked" THEN 3 ELSE 0

\* C3: the detectors run in the order BorderClassifier, bounding-box method,
\* gradient scan, one at a time, and a later one starts only while every
\* earlier one has yielded no proposal: the bounding-box method never starts
\* after BorderClassifier returned a rectangle, the gradient scan never after
\* the bounding-box method returned one.
C3_DetectorOrder ==
  /\ \A i \in 1..Len(stages) : \A j \in 1..Len(stages) :
       (i < j /\ DetectorRank(stages[i]) > 0 /\ DetectorRank(stages[j]) > 0)
         => DetectorRank(stages[i]) < DetectorRank(stages[j])
  /\ pc = "method1" => ~IsRect(cropArea) /\ ~HasStage("BoundingBoxChecked")
  /\ pc = "method2" => ~IsRect(cropArea) /\ stages[Len(stages)] = "BoundingBoxChecked"
  /\ (HasStage("BorderChecked") /\ HasStage("BoundingBoxChecked") /\ IsRect(cropArea))
       => cropInfo # "Border removal crop"

\* BorderClassifier proposed a rectangle and the guard is reached with no
\* other detector run.
C3_Witness ==
  /\ pc = "guard"
  /\ stages = <<"Decoded", "BorderChecked">>
  /\ IsRect(cropArea)

\* C4: for a decodable image, whatever the detectors do (no proposal, an error
\* inside a detector, an implausible box), correctPerspective ends Encoded
\* with success and a processed image; no detection failure reaches the caller.
C4_DetectionNeverFatal ==
  (pc = "done" /\ entry = "correctPerspective" /\ request.kind = "valid")
    => /\ result.status = "ok"
       /\ stages[Len(stages)] = "Encoded"
       /\ result.image.width > 0
       /\ result.image.height > 0

\* Every detector was tried, none proposed anything, and the call succeeded.
C4_Witness ==
  /\ pc = "done"
  /\ entry = "correctPerspective"
  /\ HasStage("BorderChecked")
  /\ HasStage("GradientChecked")
  /\ ~IsRect(cropArea)
  /\ result.status = "ok"

\* No proposal survives: none was made, or the one made is not above 100 px
\* in both directions.
NoProposalSurvives ==
  ~IsRect(cropArea) \/ cropArea.width <= MinCropSize \/ cropArea.height <= MinCropSize

\* C5: with autoCrop and no surviving proposal, correctPerspective falls back
\* to the full-image rectangle {0,0,W,H} and reports cropApplied = false.
C5_FallbackReportsNoCrop ==
  (pc = "done" /\ entry = "correctPerspective" /\ result.status = "ok"
     /\ opts.autoCrop /\ NoProposalSurvives)
    => /\ ExtractOps = {Rect(0, 0, request.width, request.height)}
       /\ result.cropApplied = FALSE

\* C6: bytes that do not decode give an explicit failure (success = false
\* returned by correctPerspective, an error thrown by enhanceDocument) and no
\* detection, crop, enhancement or encoding step, and no processed image.
C6_DecodeErrorIsFatal ==
  request.kind = "corrupt" =>
    /\ stages = << >>
    /\ processor = << >>
    /\ ~IsRect(cropArea)
    /\ ~cropApplied
    /\ pc \in {"decode", "done"}
    /\ pc = "done" =>
         /\ result.status = "error"
         /\ result.error = "decode"
         /\ entry = "correctPerspective" => result.how = "returned"
         /\ entry = "enhanceDocument" => result.how = "thrown"

\* correctPerspective has answered a call whose bytes do not decode.
C6_Witness ==
  /\ pc = "done"
  /\ request.kind = "corrupt"
  /\ entry = "correctPerspective"
  /\ result.status = "error"

SupportedFormats == {"jpeg", "png", "webp"}

\* C7: a requested output format outside jpeg, png, webp makes the pipeline
\* fail with an explicit error instead of returning an image in another format.
C7_UnsupportedFormatFails ==
  (pc = "done" /\ opts.format \notin SupportedFormats) => result.status = "error"

\* Rank of a requested operation in the order resize, grayscale, normalise,
\* sharpen, threshold, encode (0: not one of them).
TransformRank(name) ==
  IF name = "resize" THEN 1
  ELSE IF name = "grayscale" THEN 2
  ELSE IF name = "normalise" THEN 3
  ELSE IF name = "sharpen" THEN 4
  ELSE IF name = "threshold" THEN 5
  ELSE IF name = "encode" THEN 6 ELSE 0

\* C8: in every run of every entry point the enabled transforms are requested
\* in the order resize, grayscale, normalise, sharpen, threshold, encode.
C8_TransformOrder ==
  \A i \in 1..Len(processor) : \A j \in 1..Len(processor) :
    (i < j /\ TransformRank(processor[i].op) > 0 /\ TransformRank(processor[j].op) > 0)
      => TransformRank(processor[i].op) < TransformRank(processor[j].op)

\* Width of the image that enters the resize step: the crop's, or the original's.
EnteringWidth ==
  IF ExtractOps = {} THEN request.width ELSE (CHOOSE r \in ExtractOps : TRUE).width

\* C9: with maxWidth > 0, whatever was cropped, the processed image is no
\* wider than maxWidth and no wider than the image that entered the resize
\* step (never upscaled); with maxWidth = 0 no resize is requested and the
\* width is unchanged.
C9_NeverUpscaled ==
  (pc = "done" /\ result.status = "ok") =>
    /\ opts.maxWidth > 0 => /\ result.image.width <= opts.maxWidth
                            /\ result.image.width <= EnteringWidth
    /\ opts.maxWidth = 0 => /\ ~HasOp(processor, "resize")
                            /\ result.image.width = EnteringWidth

\* A resize to maxWidth was requested for an image the crop had already made
\* narrower than maxWidth.
C9_Witness ==
  /\ pc = "done"
  /\ result.status = "ok"
  /\ HasOp(processor, "resize")
  /\ ExtractOps # {}
  /\ EnteringWidth < opts.maxWidth
  /\ result.image.width = EnteringWidth

\* C10: every entry point called with threshold = t, t in 1..255, binarises
\* at t before encoding, so the output is bilevel; with threshold null or 0
\* nothing is binarised.
C10_ThresholdApplied ==
  (pc = "done" /\ result.status = "ok") =>
    IF opts.threshold \in 1..255
    THEN /\ result.image.bilevel
         /\ \E i \in 1..Len(processor) :
              /\ processor[i].op = "threshold"
              /\ processor[i].level = opts.threshold
              /\ i = Len(processor) - 1
    ELSE ~result.image.bilevel

\* The running invocation was called like the observed one.
SameCallAsObserved ==
  /\ observed # NoObservation
  /\ entry = observed.entry
  /\ request = observed.request
  /\ opts = observed.opts

\* C11: two runs of correctPerspective or enhanceDocument on the same image
\* with the same options choose the same detector, the same crop rectangle,
\* the same cropApplied/cropInfo and return the same processed image, whatever
\* was invoked before either of them.
C11_SameCallSameOutcome ==
  (pc = "done" /\ SameCallAsObserved) => Outcome = observed.outcome

\* A call that cropped on an edge-detection proposal is made a second time.
C11_Witness ==
  /\ pc = "done"
  /\ SameCallAsObserved
  /\ entry = "correctPerspective"
  /\ HasStage("BoundingBoxChecked")
  /\ cropApplied
  /\ cropInfo = "Crop applied"
  /\ result.status = "ok"

\* C12: processBatch handles the images one at a time in input order; an image
\* whose processing throws is recorded as {success: false, index, error} and
\* the images after it are still processed; the batch call returns success
\* with one entry per image, each entry telling the outcome of its own image
\* whatever happened to the others.
ItemSucceeds(k) == callable /\ images[k].kind = "valid"

ItemThrows(k) ==
  \/ ~callable
  \/ BatchHandler(batchOptions) = "enhanceDocument" /\ images[k].kind # "valid"

C12_BatchItemsIndependent ==
  /\ batchPc = "loop" => Len(results) = index
  /\ \A k \in 1..Len(results) :
       /\ results[k].index = k - 1
       /\ results[k].success <=> ItemSucceeds(k)
       /\ ItemThrows(k) => DOMAIN results[k] = {"success", "index", "error"}
  /\ (batchPc = "done" /\ batchReturn.status = "ok") =>
       /\ batchReturn.success
       /\ batchReturn.results = results
       /\ Len(results) = Len(images)

C12_Witness ==
  /\ batchPc = "done"
  /\ batchReturn.status = "ok"
  /\ Len(images) = 3
  /\ BatchHandler(batchOptions) = "enhanceDocument"
  /\ callable
  /\ ~results[1].success
  /\ results[2].success
  /\ ~results[3].success

\* C13: for every binarised mask whose dark pixels form a solid rectangle that
\* does not touch the mask border, Method 1 returns a rectangle that contains
\* every pixel of the dark rectangle and is strictly smaller than the full image.
MaskW == WorkW(probeImage.width, probeImage.height, TargetSize)

MaskH == WorkH(probeImage.width, probeImage.height, TargetSize)

\* Method 1 has scanned a mask whose dark rectangle stays off the mask border.
InsideMask ==
  /\ probePc # "method1"
  /\ maskRead.found
  /\ maskRead.minX >= 1 /\ maskRead.maxX <= MaskW - 2
  /\ maskRead.minY >= 1 /\ maskRead.maxY <= MaskH - 2

\* The rectangle r, in image coordinates, covers the mask's dark columns
\* minX..maxX and dark rows minY..maxY.
CoversDark(r) ==
  /\ r.x * MaskW <= maskRead.minX * probeImage.width
  /\ (r.x + r.width) * MaskW >= (maskRead.maxX + 1) * probeImage.width
  /\ r.y * MaskH <= maskRead.minY * probeImage.height
  /\ (r.y + r.height) * MaskH >= (maskRead.maxY + 1) * probeImage.height

PadOf(lo, hi) == Max(MinPad, Round((hi - lo) * 5, 100))

ClearOfPadding ==
  /\ InsideMask
  /\ maskRead.minX >= PadOf(maskRead.minX, maskRead.maxX)
  /\ maskRead.maxX + PadOf(maskRead.minX, maskRead.maxX) <= MaskW - 1
  /\ maskRead.minY >= PadOf(maskRead.minY, maskRead.maxY)
  /\ maskRead.maxY + PadOf(maskRead.minY, maskRead.maxY) <= MaskH - 1
  /\ 2 * Max(probeImage.width, probeImage.height) > TargetSize

C14_FlatImageNoProposal ==
  (probePc = "returned2" /\ scanRead.found /\ scanRead.contrast < 10) => edges = NoProposal

C14_Witness ==
  /\ probePc = "returned2"
  /\ scanRead.found
  /\ scanRead.contrast = 9
  /\ PlausibleBox(Method2Box(probeImage.width, probeImage.height, scanRead.v[1], scanRead.v[2],
                             scanRead.hz[1], scanRead.hz[2]),
                  probeImage.width, probeImage.height)
  /\ edges = NoProposal

\* C15: getUserDocuments of documentService returns only documents whose userId
\* is the uid of the signed-in user; no other user's document is in its result,
\* nor in the result of searchDocuments, nor counted by getDocumentStats.
OwnCount(user) == Len(SelectSeq(documents, LAMBDA d : d.userId = user))

C15_OnlyOwnDocuments ==
  /\ listed.by \in {"getUserDocuments", "searchDocuments"} =>
       \A k \in 1..Len(listed.docs) : listed.docs[k].userId = listed.user
  /\ listed.by = "getDocumentStats" => listed.total <= OwnCount(listed.user)

\* C16: correctPerspective takes the full-image fallback only after every
\* enabled detector has been attempted: the border check when removeBorders is
\* set, then the bounding-box method, then the gradient scan; a border proposal
\* that is too small leads to the next detector, not straight to the fallback.
C16_FallbackAfterAllDetectors ==
  (entry = "correctPerspective" /\ HasStage("FallbackCropped")) =>
    /\ opts.removeBorders => HasStage("BorderChecked")
    /\ HasStage("BoundingBoxChecked")
    /\ HasStage("GradientChecked")

\* C17: in correctPerspective and processDocumentByUrl, a detector's rectangle
\* is used as the extract region only if its width and height, and those of
\* the region extracted, are both more than 100 px.
C17_NoSmallCrop ==
  HasStage("Cropped") =>
    /\ IsRect(cropArea)
    /\ cropArea.width > 100 /\ cropArea.height > 100
    /\ \A r \in ExtractOps : r.width > 100 /\ r.height > 100

\* processDocumentByUrl has cropped to a rectangle of the gradient scan that is
\* narrower than the image.
C17_Witness ==
  /\ entry = "processDocumentByUrl"
  /\ HasStage("GradientChecked")
  /\ HasStage("Cropped")
  /\ \E r \in ExtractOps : r = cropArea /\ r.width < request.width

\* C18: a rectangle proposed by removeDocumentBorders for a W x H image is
\* inset on each side by floor(0.8 N), N = min(20, 5 % of min(W, H)), so by no
\* more than 16 px: x = y = inset, width = max(100, W - 2 inset) and
\* height = max(100, H - 2 inset).
BorderProposed == pc = "guard" /\ cropInfo = "Border removal crop"

InsetRect(W, H, inset) == Rect(inset, inset, Max(100, W - 2 * inset), Max(100, H - 2 * inset))

C18_InsetOfStripHeight ==
  BorderProposed =>
    /\ cropArea.x <= 16
    /\ cropArea = InsetRect(request.width, request.height,
                            Min(16, Floor(Min(request.width, request.height) * 4, 100)))

\* C18 as amended: the inset is floor(0.8 x 5 % of min(W, H)), four hundredths
\* of the shorter side rounded down, and is not limited by the strip height.
C18_InsetOfShorterSide ==
  BorderProposed =>
    cropArea = InsetRect(request.width, request.height,
                         Floor(Min(request.width, request.height) * 4, 100))

C18_Witness ==
  /\ BorderProposed
  /\ request.width = 3 * DimStep
  /\ request.height = 2 * DimStep
  /\ cropArea.x > 16

\* C19: removeDocumentBorders proposes a rectangle exactly when the mean grey
\* level over all the pixels sampled in the top and bottom strips is strictly
\* above 220; a sampling error (such as a strip of height 0 when the shorter
\* side is under 20 px) gives no proposal and is never passed on to the caller.
C19_ProposalIffBright ==
  probePc = "returnedB" =>
    IF stripRead.found
    THEN IsRect(edges) <=> stripRead.top + stripRead.bottom > 2 * 220
    ELSE edges = NoProposal

\* The strips average above 220 although the top strip alone does not.
C19_Witness ==
  /\ probePc = "returnedB"
  /\ stripRead.found
  /\ stripRead.top = 200
  /\ stripRead.bottom = 255
  /\ IsRect(edges)

\* C20: every conversion to whole pixels in detectDocumentEdges (the working
\* width and height, the 5 % and 3 % padding, and x, y, width, height scaled
\* back to the image) truncates, and never rounds to nearest.
\* k is n / d cut to a whole number; k is n / d rounded to the nearest whole
\* number, halves upwards.
IsTruncated(k, n, d) == k * d <= n /\ n < k * d + d

IsNearest(k, n, d) == 2 * k * d - d <= 2 * n /\ 2 * n < 2 * k * d + d

\* The box Method 1 returned is the padded, clamped and rescaled box of the
\* mask's content, every whole number in it obtained by Conv.
Box1Converted(Conv(_, _, _)) ==
  LET W == probeImage.width
      H == probeImage.height
      long == Max(W, H)
      pads(extent) == {Max(MinPad, k) : k \in {j \in 0..(extent \div 10 + 1) : Conv(j, extent * 5, 100)}}
  IN /\ Conv(MaskW, W * TargetSize, long)
     /\ Conv(MaskH, H * TargetSize, long)
     /\ \E padX \in pads(maskRead.maxX - maskRead.minX), padY \in pads(maskRead.maxY - maskRead.minY) :
          LET x0 == Max(0, maskRead.minX - padX)
              x1 == Min(MaskW - 1, maskRead.maxX + padX)
              y0 == Max(0, maskRead.minY - padY)
              y1 == Min(MaskH - 1, maskRead.maxY + padY)
          IN /\ Conv(edges.x, x0 * W, MaskW)
             /\ Conv(edges.y, y0 * H, MaskH)
             /\ Conv(edges.width, (x1 - x0) * W, MaskW)
             /\ Conv(edges.height, (y1 - y0) * H, MaskH)

\* The same for the box Method 2 returned.
Box2Converted(Conv(_, _, _)) ==
  LET W == probeImage.width
      H == probeImage.height
      long == Max(W, H)
      ww == WorkW(W, H, WorkSize)
      wh == WorkH(W, H, WorkSize)
      pads(side) == {k \in 0..(side \div 20 + 1) : Conv(k, side * 3, 100)}
  IN /\ Conv(ww, W * WorkSize, long)
     /\ Conv(wh, H * WorkSize, long)
     /\ \E padX \in pads(ww), padY \in pads(wh) :
          LET top == IF scanRead.v[1] < 0 THEN 0 ELSE Max(0, scanRead.v[1] - padY)
              bottom == IF scanRead.v[2] < 0 THEN wh - 1 ELSE Min(wh - 1, scanRead.v[2] + padY)
              left == IF scanRead.hz[1] < 0 THEN 0 ELSE Max(0, scanRead.hz[1] - padX)
              right == IF scanRead.hz[2] < 0 THEN ww - 1 ELSE Min(ww - 1, scanRead.hz[2] + padX)
          IN /\ Conv(edges.x, left * W, ww)
             /\ Conv(edges.y, top * H, wh)
             /\ Conv(edges.width, (right - left) * W, ww)
             /\ Conv(edges.height, (bottom - top) * H, wh)

C20_DetectorsTruncate ==
  /\ probePc = "returned1" => Box1Converted(IsTruncated)
  /\ (probePc = "returned2" /\ IsRect(edges)) => Box2Converted(IsTruncated)

\* C20 as amended: every one of these conversions rounds to the nearest whole
\* number (Math.round), and none truncates.
C20_DetectorsRoundToNearest ==
  /\ probePc = "returned1" => Box1Converted(IsNearest)
  /\ (probePc = "returned2" /\ IsRect(edges)) => Box2Converted(IsNearest)

\* Method 1 returned a box that truncation would not have produced.
C20_Witness ==
  /\ probePc = "returned1"
  /\ Box1Converted(IsNearest)
  /\ ~Box1Converted(IsTruncated)

\* C21: each method of detectDocumentEdges returns its rescaled box exactly
\* when the box covers at least 5 % of the image's width and at least 5 % of
\* its height, the boundary case of exactly 5 % included.
ScannedBox1 ==
  Method1Box(probeImage.width, probeImage.height, maskRead.minX, maskRead.maxX,
             maskRead.minY, maskRead.maxY)

ScannedBox2 ==
  Method2Box(probeImage.width, probeImage.height, scanRead.v[1], scanRead.v[2],
             scanRead.hz[1], scanRead.hz[2])

AtLeastFivePercent(r) == 20 * r.width >= probeImage.width /\ 20 * r.height >= probeImage.height

C21_FivePercentInclusive ==
  /\ (probePc \in {"returned1", "method2", "returned2"} /\ maskRead.found) =>
       (AtLeastFivePercent(ScannedBox1) <=> (probePc = "returned1" /\ edges = ScannedBox1))
  /\ (probePc = "returned2" /\ scanRead.found /\ scanRead.contrast >= 10) =>
       (AtLeastFivePercent(ScannedBox2) <=> edges = ScannedBox2)

\* C22: in the gradient scan, with threshold = min(avgBrightness x 0.7, 180)
\* and step = max(1, floor(workWidth / 40)), a line is a side's edge exactly
\* when its dark samples number more than 20 % of the samples taken on that
\* line, and each side's edge is the first such line met scanning inwards.
SamplesInRow(d) == Cardinality(Grid(d.width, ScanStep(d.width)))

SamplesInColumn(d) == Cardinality(Grid(d.height, ScanStep(d.width)))

FifthOfRow(d, y) == 5 * DarkInRow(d, y) > SamplesInRow(d)

FifthOfColumn(d, x) == 5 * DarkInColumn(d, x) > SamplesInColumn(d)

Scanned == probePc = "returned2" /\ workData # NoReading /\ scanRead.contrast >= 10

C22_EdgeIsFirstFifthDarkLine ==
  Scanned =>
    /\ scanRead.v[1] = FirstOf({y \in Grid(workData.height, ScanStep(workData.width)) :
                                  FifthOfRow(workData, y)})
    /\ scanRead.v[2] = LastOf({y \in GridBack(workData.height, ScanStep(workData.width)) :
                                 FifthOfRow(workData, y)})
    /\ scanRead.hz[1] = FirstOf({x \in Grid(workData.width, ScanStep(workData.width)) :
                                   FifthOfColumn(workData, x)})
    /\ scanRead.hz[2] = LastOf({x \in GridBack(workData.width, ScanStep(workData.width)) :
                                  FifthOfColumn(workData, x)})

\* C23: every rectangle detectDocumentEdges returns for a W x H image, from
\* either method, has x >= 0, y >= 0, width > 0, height > 0, x + width <= W and
\* y + height <= H, at every scale and also when the edges the gradient scan
\* found cross each other.
C23_EdgesInsideImage ==
  (probePc \in {"returned1", "returned2"} /\ IsRect(edges)) =>
    /\ edges.x >= 0
    /\ edges.y >= 0
    /\ edges.width > 0
    /\ edges.height > 0
    /\ edges.x + edges.width <= probeImage.width
    /\ edges.y + edges.height <= probeImage.height

\* The gradient scan returned a box for an image smaller than the working
\* size, its right edge found near the border and padded.
C23_Witness ==
  /\ probePc = "returned2"
  /\ IsRect(edges)
  /\ probeImage.width = 90
  /\ scanRead.hz[2] = WorkW(probeImage.width, probeImage.height, WorkSize) - 1
  /\ edges.x + edges.width = probeImage.width

ProposalInside ==
  /\ IsRect(cropArea)
  /\ cropArea.x >= 0
  /\ cropArea.y >= 0
  /\ cropArea.width > MinCropSize
  /\ cropArea.height > MinCropSize
  /\ cropArea.x + cropArea.width <= request.width
  /\ cropArea.y + cropArea.height <= request.height

ReturnsFailure(k) ==
  /\ callable
  /\ BatchHandler(batchOptions) = "correctPerspective"
  /\ images[k].kind # "valid"

\* C25: a processBatch call with N images (1 <= N <= 10) returns a results
\* list of exactly N entries, results[k].index = k in input order, and
\* processed + failed = N; an item whose correctPerspective call returned
\* success = false without throwing is counted as failed, never as processed.
C25_BatchCounts ==
  (batchPc = "done" /\ batchReturn.status = "ok") =>
    LET N == Len(images)
        rs == batchReturn.results
    IN /\ N \in 1..MaxBatchImages
       /\ Len(rs) = N
       /\ \A k \in 1..N : rs[k].index = k - 1
       /\ batchReturn.processed + batchReturn.failed = N
       /\ batchReturn.processed = Cardinality({k \in 1..N : ItemSucceeds(k)})
       /\ \A k \in 1..N : ReturnsFailure(k) => ~rs[k].success

\* A batch handled by correctPerspective has returned with one item processed
\* and one whose handler returned a failure without throwing.
C25_Witness ==
  /\ batchPc = "done"
  /\ batchReturn.status = "ok"
  /\ Len(images) >= 2
  /\ \E k \in 1..Len(images) :
       /\ ReturnsFailure(k)
       /\ DOMAIN batchReturn.results[k] = {"success", "index", "returned"}
  /\ batchReturn.processed >= 1
  /\ batchReturn.failed >= 1

ReturnedByCorrectPerspective ==
  pc = "done" /\ entry = "correctPerspective" /\ result.status = "ok"

\* C26: whenever correctPerspective returns cropApplied = false, cropInfo is
\* 'No crop applied' and compressionRatio is '0%'; for every rectangle the
\* detectors can return, the branch 'crop area too small after bounds check',
\* which leaves cropInfo naming a detector while cropApplied stays false, is
\* never taken.
C26_CropDiagnosticsConsistent ==
  /\ (ReturnedByCorrectPerspective /\ ~result.cropApplied) =>
       /\ result.cropInfo = "No crop applied"
       /\ result.compressionRatio = "0%"
  /\ (entry = "correctPerspective" /\ HasStage("BoundsClamped")) => HasStage("Cropped")

\* correctPerspective has returned an uncropped image although border removal
\* was enabled.
C26_Witness ==
  /\ ReturnedByCorrectPerspective
  /\ ~result.cropApplied
  /\ opts.removeBorders
  /\ result.compressionRatio = "0%"

OwnerOf(id) == Snapshot(id).userId

Running == {c \in CallSlots : calls[c].pc # "idle"}

\* Every record and every file that a step removes belongs to a document of
\* the caller of a running deleteDocument call.
DeletesOnlyOwn ==
  /\ \A d \in firestore \ firestore' :
       \E c \in Running : /\ calls[c].fn = "deleteDocument"
                          /\ calls[c].documentId = d.id
                          /\ calls[c].uid = d.userId
  /\ \A f \in storage \ storage' :
       \E c \in Running : /\ calls[c].fn = "deleteDocument"
                          /\ calls[c].documentId = f[2]
                          /\ calls[c].uid = f[1]
                          /\ calls[c].snap.exists
                          /\ calls[c].snap.userId = f[1]

AnswersOnlyOwner ==
  \A c \in Running :
    /\ calls[c].uid = "none" =>
         /\ calls[c].pc = "done"
         /\ calls[c].reads = 0
         /\ calls[c].outcome.status = "error"
    /\ (calls[c].snap.exists /\ calls[c].snap.userId # calls[c].uid) =>
         /\ calls[c].pc = "done"
         /\ calls[c].outcome.status = "error"
    /\ (calls[c].pc = "done" /\ calls[c].outcome.status = "ok") =>
         /\ calls[c].snap.exists
         /\ calls[c].snap.userId = calls[c].uid
         /\ calls[c].fn = "getDocument" => calls[c].outcome.document.userId = calls[c].uid

\* C27: getDocument and deleteDocument never return or delete a document
\* whose stored userId differs from the caller's uid: an unauthenticated call
\* is rejected before any read, and a call by somebody who is not the owner
\* ends in an error with neither the Firestore record nor the storage file
\* deleted.
C27_OnlyOwnerReadsOrDeletes ==
  /\ []AnswersOnlyOwner
  /\ [][DeletesOnlyOwn]_vars

\* deleteDocument, called by a user who does not own the document, has ended
\* in an error; the record and the owner's file are still there.
C27_Witness ==
  \E c \in Running :
    /\ calls[c].pc = "done"
    /\ calls[c].fn = "deleteDocument"
    /\ calls[c].snap.exists
    /\ calls[c].snap.userId # calls[c].uid
    /\ calls[c].outcome.status = "error"
    /\ calls[c].snap \in firestore
    /\ <<calls[c].snap.userId, calls[c].documentId>> \in storage
    /\ <<calls[c].uid, calls[c].documentId>> \in storage

ChainEnded(u) ==
  /\ \A object \in finalized : object.origin # u
  /\ \A run \in compressing : run.object.origin # u

\* C28: the compressImage trigger terminates: the finalize event caused by
\* the trigger's own save carries compressed = 'true' and is skipped, so each
\* upload causes at most two invocations and at most one save; objects that
\* are no images and compressions that fail cause no save at all.
C28_TriggerChainFinite ==
  /\ \A u \in 1..Len(tally) :
       /\ tally[u].invocations <= 2
       /\ tally[u].saves <= 1
       /\ tally[u].invocations = 2 => tally[u].saves = 1
  /\ \A object \in finalized :
       object.contentType = "image/jpeg" => object.compressed = "true"
  /\ \A u \in 1..Len(tally) :
       ~IsImage(tally[u].contentType) => tally[u].saves = 0 /\ tally[u].invocations <= 1
  /\ (Len(tally) = 1 /\ tally[1].content = "corrupt") => tally[1].saves = 0

\* An uploaded image was compressed and saved once; the event of the save was
\* delivered and skipped, and nothing more is pending for this upload.
C28_Witness ==
  \E u \in 1..Len(tally) :
    /\ tally[u].invocations = 2
    /\ tally[u].saves = 1
    /\ ChainEnded(u)
    /\ file.exists
    /\ file.origin = u
    /\ file.compressed = "true"

\* C29: once the user has cancelled while an upload or the processing was in
\* flight ('Cancel Processing'), the handleUpload still running does not set
\* processing = true, set a result or restart the progress simulation: the
\* component stays idle (uploading = false, processing = false, result = null,
\* no files) until the user starts a new scan.
C29_CancelStaysIdle ==
  cancelled =>
    /\ ~upload.uploading
    /\ ~upload.processing
    /\ upload.result = "null"
    /\ upload.files = << >>
    /\ \A h \in HandlerSlots : <<h, "progressInterval">> \notin timers

CropStages == {"BorderChecked", "BoundingBoxChecked", "GradientChecked", "BoundsClamped",
               "Cropped", "FallbackCropped"}

OriginalDims == [width |-> request.width, height |-> request.height]

\* C30: when correctPerspective is called with autoCrop = false, no detector
\* is run and no crop is applied: the image entering enhancement has the
\* original dimensions, and the result reports cropApplied = false,
\* cropInfo = 'No crop applied' and compressionRatio = '0%', whatever the value
\* of removeBorders.
C30_NoAutoCropNoCrop ==
  (entry = "correctPerspective" /\ pc \in {"border", "method1", "method2", "guard",
                                           "enhance", "encode", "done"}
   /\ ~opts.autoCrop) =>
    /\ pc \in {"enhance", "encode", "done"}
    /\ \A name \in CropStages : ~HasStage(name)
    /\ ExtractOps = {}
    /\ pc = "enhance" => ChainDims(processor, OriginalDims) = OriginalDims
    /\ (pc = "done" /\ result.status = "ok") =>
         /\ ~result.cropApplied
         /\ result.cropInfo = "No crop applied"
         /\ result.compressionRatio = "0%"

\* correctPerspective has returned for a call with autoCrop = false and
\* removeBorders = true.
C30_Witness ==
  /\ pc = "done"
  /\ entry = "correctPerspective"
  /\ result.status = "ok"
  /\ ~opts.autoCrop
  /\ opts.removeBorders
  /\ HasStage("Encoded")
  /\ ~result.cropApplied

====
